---- MODULE Spec2Model ----
(***************************************************************************)
(* Model of the live-query server of postgres-spreadsheet-view:            *)
(*   - the PK-injection rewrite (pkg/pg_lineage),                          *)
(*   - the provenance resolver (pkg/pg_lineage),                           *)
(*   - the live-query registry and the WebSocket handler (internal/api,    *)
(*     internal/reactive),                                                 *)
(*   - the WAL change consumer and the partial refresh engine              *)
(*     (internal/wal, internal/reactive, internal/app).                    *)
(* Go strings are sequences of one-character strings, so that suffix       *)
(* tests, splits and concatenations are computed and not assumed.          *)
(***************************************************************************)
EXTENDS Integers, Sequences, FiniteSets, TLC

(***************************************************************************)
(* Strings                                                                 *)
(***************************************************************************)

\* The characters that occur in the model, in ASCII order.
Ascii ==
  << "*", ",", ".", "0", "1", "2", "3", "4", "5", "6", "7", "8", "9", ":", "=",
     "A", "B", "C", "D", "E", "F", "G", "H", "I", "J", "K", "L", "M", "N",
     "O", "P", "Q", "R", "S", "T", "U", "V", "W", "X", "Y", "Z",
     "_", "a", "b", "c", "d", "e", "f", "g", "h", "i", "j", "k", "l", "m",
     "n", "o", "p", "q", "r", "s", "t", "u", "v", "w", "x", "y", "z", "|" >>

CharCode(c) == CHOOSE i \in 1..Len(Ascii) : Ascii[i] = c

EmptyStr == << >>

\* Go's < on strings: byte-wise lexicographic order.
RECURSIVE StrLess(_, _)
StrLess(a, b) ==
  IF b = << >> THEN FALSE
  ELSE IF a = << >> THEN TRUE
  ELSE IF Head(a) = Head(b) THEN StrLess(Tail(a), Tail(b))
  ELSE CharCode(Head(a)) < CharCode(Head(b))

\* sort.Strings over the elements of a finite set of strings.
RECURSIVE SortStrings(_)
SortStrings(S) ==
  IF S = {} THEN << >>
  ELSE LET m == CHOOSE x \in S : \A y \in S \ {x} : StrLess(x, y)
       IN  << m >> \o SortStrings(S \ {m})

\* strings.HasSuffix
HasSuffix(s, suf) ==
  /\ Len(suf) <= Len(s)
  /\ SubSeq(s, Len(s) - Len(suf) + 1, Len(s)) = suf

\* strings.HasPrefix
HasPrefix(s, pre) ==
  /\ Len(pre) <= Len(s)
  /\ SubSeq(s, 1, Len(pre)) = pre

\* strings.IndexByte: 0 when the byte does not occur (Go returns -1).
IndexByte(s, c) ==
  IF \E i \in 1..Len(s) : s[i] = c
  THEN CHOOSE i \in 1..Len(s) : s[i] = c /\ \A j \in 1..(i - 1) : s[j] # c
  ELSE 0

\* strings.LastIndexByte: 0 when the byte does not occur.
LastIndexByte(s, c) ==
  IF \E i \in 1..Len(s) : s[i] = c
  THEN CHOOSE i \in 1..Len(s) : s[i] = c /\ \A j \in (i + 1)..Len(s) : s[j] # c
  ELSE 0

\* strings.ReplaceAll for single characters.
ReplaceAll(s, old, new) == [i \in 1..Len(s) |-> IF s[i] = old THEN new ELSE s[i]]

\* strings.Contains for a single character.
ContainsChar(s, c) == \E i \in 1..Len(s) : s[i] = c

UpperCase ==
  << "A", "B", "C", "D", "E", "F", "G", "H", "I", "J", "K", "L", "M", "N",
     "O", "P", "Q", "R", "S", "T", "U", "V", "W", "X", "Y", "Z" >>
LowerCase ==
  << "a", "b", "c", "d", "e", "f", "g", "h", "i", "j", "k", "l", "m", "n",
     "o", "p", "q", "r", "s", "t", "u", "v", "w", "x", "y", "z" >>

\* strings.ToLower
ToLower(s) ==
  [i \in 1..Len(s) |->
     IF \E k \in 1..Len(UpperCase) : UpperCase[k] = s[i]
     THEN LowerCase[CHOOSE k \in 1..Len(UpperCase) : UpperCase[k] = s[i]]
     ELSE s[i]]

Dot == << "." >>
Underscore == << "_" >>

\* Names used by the catalog and the queries.
s_public == << "p", "u", "b", "l", "i", "c" >>
s_actor == << "a", "c", "t", "o", "r" >>
s_film == << "f", "i", "l", "m" >>
s_note == << "n", "o", "t", "e" >>
s_id == << "i", "d" >>
s_name == << "n", "a", "m", "e" >>
s_title == << "t", "i", "t", "l", "e" >>
s_body == << "b", "o", "d", "y" >>
s_actor_id == << "a", "c", "t", "o", "r", "_", "i", "d" >>
s_a == << "a" >>
s_f == << "f" >>
s_t == << "t" >>
s_top == << "t", "o", "p" >>
s_role == << "r", "o", "l", "e" >>
s_c == << "c" >>
s_b_c == << "b", "_", "c" >>
s_a_b == << "a", "_", "b" >>
s_pk == << "_", "p", "k", "_" >>
s_derived == << "_", "_", "d", "e", "r", "i", "v", "e", "d", "_", "_", ":" >>
s_subselect == << "s", "u", "b", "s", "e", "l", "e", "c", "t" >>
s_star == << "*" >>

\* A Go map as a function; the absent key reads as the zero value.
MapGet(m, k, zero) == IF k \in DOMAIN m THEN m[k] ELSE zero
MapPut(m, k, v) == [x \in (DOMAIN m) \cup {k} |-> IF x = k THEN v ELSE m[x]]
EmptyMap == [x \in {} |-> << >>]

\* The elements of a sequence.
Range(s) == {s[i] : i \in 1..Len(s)}

\* All orders in which a Go `range` may visit the keys of a map.
Perms(S) == {p \in [1..Cardinality(S) -> S] : \A x \in S : \E i \in DOMAIN p : p[i] = x}

(***************************************************************************)
(* Schema catalog (richcatalog.DBCatalog)                                  *)
(***************************************************************************)

Qualified(schema, rel) == schema \o Dot \o rel

\* The snapshot the catalog holds after Refresh: per qualified table its
\* ordered columns and ordered primary-key columns.
byTable ==
  [t \in {Qualified(s_public, s_actor), Qualified(s_public, s_film),
          Qualified(s_public, s_note), Qualified(s_public, s_role)} |->
     IF t = Qualified(s_public, s_actor)
       THEN [Columns |-> << s_id, s_name >>, PK |-> << s_id >>]
     ELSE IF t = Qualified(s_public, s_film)
       THEN [Columns |-> << s_id, s_title, s_name, s_actor_id >>, PK |-> << s_id >>]
     ELSE IF t = Qualified(s_public, s_role)
       THEN [Columns |-> << s_b_c, s_c, s_body >>, PK |-> << s_c, s_b_c >>]
     ELSE [Columns |-> << s_body >>, PK |-> << >>]]

qual(s) == IF ContainsChar(s, ".") THEN s ELSE s_public \o Dot \o s

\* Each lookup returns [ok, v]: Go's (value, found) pair.
lookupTable(qualified) ==
  IF qual(qualified) \in DOMAIN byTable
  THEN [ok |-> TRUE, v |-> byTable[qual(qualified)]]
  ELSE [ok |-> FALSE, v |-> [Columns |-> << >>, PK |-> << >>]]

CatColumns(qualified) ==
  [ok |-> lookupTable(qualified).ok, v |-> lookupTable(qualified).v.Columns]

PrimaryKeys(qualified) ==
  [ok |-> lookupTable(qualified).ok, v |-> lookupTable(qualified).v.PK]

(***************************************************************************)
(* Parse trees (the pg_query nodes the rewrite and the resolver read)      *)
(***************************************************************************)

NoNode == [kind |-> "nil"]

ColumnRef(fields) == [kind |-> "ColumnRef", fields |-> fields]
A_Const == [kind |-> "A_Const"]
A_Expr(l, r) == [kind |-> "A_Expr", lexpr |-> l, rexpr |-> r]
FuncCall(fname, args) == [kind |-> "FuncCall", funcname |-> fname, args |-> args]
SubLink(sel) == [kind |-> "SubLink", subselect |-> sel]
ResTarget(name, val) == [kind |-> "ResTarget", name |-> name, val |-> val]
RangeVar(schema, rel, alias) ==
  [kind |-> "RangeVar", schemaname |-> schema, relname |-> rel, aliasname |-> alias]
JoinExpr(l, r) == [kind |-> "JoinExpr", larg |-> l, rarg |-> r]
RangeSubselect(alias, sel) ==
  [kind |-> "RangeSubselect", aliasname |-> alias, subquery |-> sel]
CommonTableExpr(name, sel) == [ctename |-> name, ctequery |-> sel]
SelectStmt(with, targets, from, where, group) ==
  [kind |-> "SelectStmt", withClause |-> with, targetList |-> targets,
   fromClause |-> from, whereClause |-> where, groupClause |-> group,
   havingClause |-> NoNode, sortClause |-> << >>]

(***************************************************************************)
(* PK injection rewrite (pg_lineage.RewriteSelectInjectPKs)                *)
(***************************************************************************)

IsDerived(fqTable) == HasPrefix(fqTable, s_derived)

displayAlias(visibleAlias, fqTable, isExplicit) ==
  IF isExplicit THEN ReplaceAll(visibleAlias, ".", "_")
  ELSE LET i == LastIndexByte(fqTable, ".")
           base == IF i > 0 THEN SubSeq(fqTable, i + 1, Len(fqTable)) ELSE fqTable
       IN  ReplaceAll(base, ".", "_")

baseTableCount(aliasToFQ) ==
  Cardinality({a \in DOMAIN aliasToFQ : ~IsDerived(aliasToFQ[a])})

buildColRefForScope(visibleAlias, fqTable, col, scopeBaseCount, isExplicit) ==
  IF ~isExplicit /\ scopeBaseCount = 1
  THEN ColumnRef(<< col >>)
  ELSE ColumnRef(<< visibleAlias, col >>)

makeResTargetForScope(visibleAlias, fqTable, col, targetName, scopeBaseCount, isExplicit) ==
  ResTarget(targetName,
            buildColRefForScope(visibleAlias, fqTable, col, scopeBaseCount, isExplicit))

\* The keys in descending order.
sortedKeysDescending(m) ==
  [i \in 1..Cardinality(DOMAIN m) |->
     SortStrings(DOMAIN m)[Cardinality(DOMAIN m) + 1 - i]]

sortedKeys(m) == SortStrings(DOMAIN m)

\* An existingNames that records nothing.
TargetNamesNone(targetList) == {}

\* The names already present in a target list (existingNames).
TargetNames(targetList) ==
  {targetList[i].name : i \in {j \in 1..Len(targetList) : targetList[j].name # EmptyStr}}

\* Step 4 of injectPKsInSelect for the PK columns pks[k..] of one alias:
\* st = [targetList, adds, names].
RECURSIVE InjectPKsOfAlias(_, _, _, _, _, _, _, _)
InjectPKsOfAlias(st, visAlias, fqTable, safeAlias, pks, k, scopeBaseCount, isExplicit) ==
  IF k > Len(pks) THEN st
  ELSE LET targetName == s_pk \o safeAlias \o Underscore \o pks[k]
           next ==
             IF targetName \in st.names THEN st
             ELSE [targetList |->
                     Append(st.targetList,
                            makeResTargetForScope(visAlias, fqTable, pks[k], targetName,
                                                  scopeBaseCount, isExplicit)),
                   adds |-> MapPut(st.adds, safeAlias,
                                   Append(MapGet(st.adds, safeAlias, << >>), targetName)),
                   names |-> st.names \cup {targetName}]
       IN  InjectPKsOfAlias(next, visAlias, fqTable, safeAlias, pks, k + 1,
                            scopeBaseCount, isExplicit)

\* Step 4 over the aliases[i..] of the scope in sorted order.
RECURSIVE InjectTargets(_, _, _, _, _)
InjectTargets(st, aliases, i, aliasToFQ, aliasIsExplicit) ==
  IF i > Len(aliases) THEN st
  ELSE LET visAlias == aliases[i]
           fqTable == aliasToFQ[visAlias]
           pks == PrimaryKeys(fqTable)
           next ==
             IF IsDerived(fqTable) \/ ~pks.ok \/ Len(pks.v) = 0 THEN st
             ELSE InjectPKsOfAlias(st, visAlias, fqTable,
                                   displayAlias(visAlias, fqTable, aliasIsExplicit[visAlias]),
                                   pks.v, 1, baseTableCount(aliasToFQ),
                                   aliasIsExplicit[visAlias])
       IN  InjectTargets(next, aliases, i + 1, aliasToFQ, aliasIsExplicit)

\* Step 3b: the column references appended to an existing GROUP BY list.
RECURSIVE GroupRefs(_, _, _, _)
GroupRefs(aliases, i, aliasToFQ, aliasIsExplicit) ==
  IF i > Len(aliases) THEN << >>
  ELSE LET visAlias == aliases[i]
           fqTable == aliasToFQ[visAlias]
           pks == PrimaryKeys(fqTable)
           here ==
             IF IsDerived(fqTable) \/ ~pks.ok \/ Len(pks.v) = 0 THEN << >>
             ELSE [k \in 1..Len(pks.v) |->
                     buildColRefForScope(visAlias, fqTable, pks.v[k],
                                         baseTableCount(aliasToFQ),
                                         aliasIsExplicit[visAlias])]
       IN  here \o GroupRefs(aliases, i + 1, aliasToFQ, aliasIsExplicit)

RECURSIVE injectPKsInSelect(_, _)
RECURSIVE collectAliasesAndRecurse(_, _, _)
RECURSIVE rewriteExprForSublinks(_, _)
RECURSIVE rewriteExprListForSublinks(_, _, _)
RECURSIVE InjectCTEs(_, _, _)


\* Returns [node, adds]: the expression with every SubLink's select rewritten.
\* (The local operators bind each intermediate result once.)
rewriteExprForSublinks(expr, adds) ==
  IF expr.kind = "SubLink" THEN
    LET Out(r) == [node |-> SubLink(r.sel), adds |-> r.adds]
    IN  Out(injectPKsInSelect(expr.subselect, adds))
  ELSE IF expr.kind = "A_Expr" THEN
    LET Out(l, r) == [node |-> A_Expr(l.node, r.node), adds |-> r.adds]
        Right(l) == Out(l, rewriteExprForSublinks(expr.rexpr, l.adds))
    IN  Right(rewriteExprForSublinks(expr.lexpr, adds))
  ELSE IF expr.kind = "FuncCall" THEN
    LET Out(r) == [node |-> FuncCall(expr.funcname, r.nodes), adds |-> r.adds]
    IN  Out(rewriteExprListForSublinks(expr.args, 1, adds))
  ELSE [node |-> expr, adds |-> adds]

\* Returns [nodes, adds] for the nodes[i..] of a list; a ResTarget is entered
\* through its val.
rewriteExprListForSublinks(nodes, i, adds) ==
  IF i > Len(nodes) THEN [nodes |-> << >>, adds |-> adds]
  ELSE LET n == nodes[i]
           Out(node, rest) == [nodes |-> << node >> \o rest.nodes, adds |-> rest.adds]
           Rest(r) ==
             Out(IF n.kind = "ResTarget" THEN ResTarget(n.name, r.node) ELSE r.node,
                 rewriteExprListForSublinks(nodes, i + 1, r.adds))
       IN  Rest(rewriteExprForSublinks(IF n.kind = "ResTarget" THEN n.val ELSE n, adds))

\* Step 1: the CTE bodies ctes[i..] rewritten in place.
InjectCTEs(ctes, i, adds) ==
  IF i > Len(ctes) THEN [ctes |-> << >>, adds |-> adds]
  ELSE LET Out(r, rest) ==
             [ctes |-> << CommonTableExpr(ctes[i].ctename, r.sel) >> \o rest.ctes,
              adds |-> rest.adds]
           Rest(r) == Out(r, InjectCTEs(ctes, i + 1, r.adds))
       IN  Rest(injectPKsInSelect(ctes[i].ctequery, adds))

\* Later entries of a map win over earlier ones (out[k] = v in a loop).
MapMerge(m1, m2) ==
  [a \in DOMAIN m1 \cup DOMAIN m2 |-> IF a \in DOMAIN m2 THEN m2[a] ELSE m1[a]]

\* Returns [from, out, exp, adds] for the FROM items from[i..]: the items
\* with their subselects rewritten, alias -> qualified table, alias -> explicit?.
collectAliasesAndRecurse(from, i, adds) ==
  IF i > Len(from) THEN [from |-> << >>, out |-> EmptyMap, exp |-> EmptyMap, adds |-> adds]
  ELSE
    LET n == from[i]
        Out(here, rest) ==
          [from |-> << here.node >> \o rest.from,
           out |-> MapMerge(here.out, rest.out),
           exp |-> MapMerge(here.exp, rest.exp),
           adds |-> rest.adds]
        Rest(here) == Out(here, collectAliasesAndRecurse(from, i + 1, here.adds))
        JoinOut(l, r) ==
          [node |-> JoinExpr(l.from[1], r.from[1]),
           out |-> MapMerge(l.out, r.out),
           exp |-> MapMerge(l.exp, r.exp),
           adds |-> r.adds]
        JoinRight(l) == JoinOut(l, collectAliasesAndRecurse(<< n.rarg >>, 1, l.adds))
        SubOut(alias, r) ==
          [node |-> RangeSubselect(n.aliasname, r.sel),
           out |-> MapPut(EmptyMap, alias, s_derived \o alias),
           exp |-> MapPut(EmptyMap, alias, TRUE), adds |-> r.adds]
    IN
    IF n.kind = "RangeVar" THEN
      LET fq == IF n.schemaname # EmptyStr
                THEN n.schemaname \o Dot \o n.relname
                ELSE s_public \o Dot \o n.relname
          alias == IF n.aliasname # EmptyStr THEN n.aliasname ELSE n.relname
      IN  Rest([node |-> n, out |-> MapPut(EmptyMap, alias, fq),
                exp |-> MapPut(EmptyMap, alias, n.aliasname # EmptyStr), adds |-> adds])
    ELSE IF n.kind = "JoinExpr" THEN
      Rest(JoinRight(collectAliasesAndRecurse(<< n.larg >>, 1, adds)))
    ELSE IF n.kind = "RangeSubselect" THEN
      Rest(SubOut(IF n.aliasname # EmptyStr THEN n.aliasname ELSE s_subselect,
                  injectPKsInSelect(n.subquery, adds)))
    ELSE Rest([node |-> n, out |-> EmptyMap, exp |-> EmptyMap, adds |-> adds])

\* Returns [sel, adds]: the select rewritten in place and the alias ->
\* injected-names map shared by the whole tree.
injectPKsInSelect(sel, adds) ==
  LET \* Steps 3b and 4: GROUP BY extension and PK target injection.
      Out(sel1, wh, hv, so, grp, inj) ==
        [sel |-> [sel1 EXCEPT !.targetList = inj.targetList,
                              !.whereClause = wh.node,
                              !.havingClause = hv.node,
                              !.sortClause = so.nodes,
                              !.groupClause = grp],
         adds |-> inj.adds]
      Inject(sel1, fr, aliases, tl, wh, hv, so) ==
        Out(sel1, wh, hv, so,
            IF Len(sel1.groupClause) > 0
            THEN sel1.groupClause \o GroupRefs(aliases, 1, fr.out, fr.exp)
            ELSE sel1.groupClause,
            InjectTargets([targetList |-> tl.nodes, adds |-> so.adds,
                           names |-> TargetNames(tl.nodes)],
                          aliases, 1, fr.out, fr.exp))
      \* Step 3: sublinks of the target list, WHERE, HAVING and ORDER BY.
      Sort(sel1, fr, tl, wh, hv) ==
        Inject(sel1, fr, sortedKeys(fr.out), tl, wh, hv,
               rewriteExprListForSublinks(sel1.sortClause, 1, hv.adds))
      Having(sel1, fr, tl, wh) ==
        Sort(sel1, fr, tl, wh,
             IF sel1.havingClause # NoNode
             THEN rewriteExprForSublinks(sel1.havingClause, wh.adds)
             ELSE [node |-> NoNode, adds |-> wh.adds])
      Where(sel1, fr, tl) ==
        Having(sel1, fr, tl,
               IF sel1.whereClause # NoNode
               THEN rewriteExprForSublinks(sel1.whereClause, tl.adds)
               ELSE [node |-> NoNode, adds |-> tl.adds])
      Targets(sel1, fr) ==
        IF DOMAIN fr.out = {} THEN [sel |-> sel1, adds |-> fr.adds]
        ELSE Where(sel1, fr, rewriteExprListForSublinks(sel1.targetList, 1, fr.adds))
      \* Step 2: the aliases of the FROM clause.
      From(ctes, fr) ==
        Targets([sel EXCEPT !.withClause = ctes.ctes, !.fromClause = fr.from], fr)
      CTEs(ctes) == From(ctes, collectAliasesAndRecurse(sel.fromClause, 1, ctes.adds))
  IN  CTEs(InjectCTEs(sel.withClause, 1, adds))

\* A subscribe frame's SQL after pg_query.Parse: a select tree, another
\* statement, or text the parser rejects.
ParsedSelect(sel) == [parse |-> "select", stmt |-> sel]
NonSelect == [parse |-> "other", stmt |-> NoNode]
Unparseable == [parse |-> "error", stmt |-> NoNode]

\* Returns [err, sql, adds].
RewriteSelectInjectPKs(sql) ==
  IF sql.parse = "error" THEN [err |-> TRUE, sql |-> sql, adds |-> EmptyMap]
  ELSE IF sql.parse # "select" THEN [err |-> FALSE, sql |-> sql, adds |-> EmptyMap]
  ELSE LET Out(r) == [err |-> FALSE, sql |-> ParsedSelect(r.sel), adds |-> r.adds]
       IN  Out(injectPKsInSelect(sql.stmt, EmptyMap))

(***************************************************************************)
(* Provenance resolver (pg_lineage.ResolveProvenance).  The trees of this  *)
(* model carry no star targets, so the star expansions are not modelled.   *)
(***************************************************************************)

\* strings.Join
RECURSIVE Join(_, _)
Join(parts, sep) ==
  IF Len(parts) = 0 THEN << >>
  ELSE IF Len(parts) = 1 THEN parts[1]
  ELSE parts[1] \o sep \o Join(Tail(parts), sep)

\* strings.ToUpper
ToUpper(s) ==
  [i \in 1..Len(s) |->
     IF \E k \in 1..Len(LowerCase) : LowerCase[k] = s[i]
     THEN UpperCase[CHOOSE k \in 1..Len(LowerCase) : LowerCase[k] = s[i]]
     ELSE s[i]]

\* Deduplicated and sorted.
uniqueStrings(xs) == SortStrings(Range(xs))

stripAliasPrefix(k) ==
  LET i == LastIndexByte(k, ".")
  IN  IF i > 0 THEN SubSeq(k, i + 1, Len(k)) ELSE k

\* A hasColumn that finds every column in every table.
hasColumnAlways(tbl, col) == TRUE

hasColumn(tbl, col) ==
  LET Has(cols) == cols.ok /\ col \in Range(cols.v)
      Retry(direct, i) ==
        Has(IF direct.ok THEN direct
            ELSE IF i > 0 THEN CatColumns(SubSeq(tbl, i + 1, Len(tbl)))
            ELSE direct)
  IN  Retry(CatColumns(tbl), IndexByte(tbl, "."))

\* The analysis context: scope (alias -> table or derived name), dc (derived
\* name -> ordered columns), dp (derived name -> column -> sources).
EmptyCtx == [scope |-> EmptyMap, dc |-> EmptyMap, dp |-> EmptyMap]

\* c.dp[name][col], empty when absent.
DPGet(c, name, col) == MapGet(MapGet(c.dp, name, EmptyMap), col, << >>)

\* The texts of the resolver's errors.
s_ambiguous == << "a", "m", "b", "i", "g", "u", "o", "u", "s", " ", "c", "o", "l", "u", "m", "n", " " >>
s_alias == << "a", "l", "i", "a", "s", " " >>
s_not_found == << " ", "n", "o", "t", " ", "f", "o", "u", "n", "d" >>
s_parse_error == << "p", "a", "r", "s", "e", " ", "e", "r", "r", "o", "r" >>
s_only_select == << "o", "n", "l", "y", " ", "S", "E", "L", "E", "C", "T", " ", "s", "u", "p", "p", "o", "r", "t", "e", "d" >>

\* fmt.Errorf("ambiguous column %s", col) and fmt.Errorf("alias %s not found", alias)
resolveError(parts) ==
  IF Len(parts) = 1 THEN s_ambiguous \o parts[1]
  ELSE s_alias \o parts[1] \o s_not_found

\* Returns [err, src, msg].
resolveColumn(c, parts) ==
  IF Len(parts) = 1 THEN
    LET Unqualified(col, single, alias, cands) ==
          IF single /\ Len(DPGet(c, alias, col)) > 0
            THEN [err |-> FALSE, msg |-> EmptyStr, src |-> DPGet(c, alias, col)[1]]
          ELSE IF single /\ c.scope[alias] # EmptyStr
                         /\ Len(DPGet(c, c.scope[alias], col)) > 0
            THEN [err |-> FALSE, msg |-> EmptyStr, src |-> DPGet(c, c.scope[alias], col)[1]]
          ELSE IF Cardinality(cands) = 1
            THEN [err |-> FALSE, msg |-> EmptyStr,
                  src |-> c.scope[CHOOSE a \in cands : TRUE] \o Dot \o col]
          ELSE IF single
            THEN [err |-> FALSE, msg |-> EmptyStr, src |-> c.scope[alias] \o Dot \o col]
          ELSE [err |-> TRUE, src |-> EmptyStr, msg |-> resolveError(parts)]
    IN  Unqualified(parts[1], Cardinality(DOMAIN c.scope) = 1,
                    CHOOSE a \in DOMAIN c.scope : TRUE,
                    {a \in DOMAIN c.scope : hasColumn(c.scope[a], parts[1])})
  ELSE IF Len(parts) = 2 THEN
    LET alias == parts[1]
        col == parts[2]
    IN  IF alias \in DOMAIN c.scope THEN
          IF Len(DPGet(c, alias, col)) > 0
            THEN [err |-> FALSE, msg |-> EmptyStr, src |-> DPGet(c, alias, col)[1]]
          ELSE IF Len(DPGet(c, c.scope[alias], col)) > 0
            THEN [err |-> FALSE, msg |-> EmptyStr, src |-> DPGet(c, c.scope[alias], col)[1]]
          ELSE [err |-> FALSE, msg |-> EmptyStr, src |-> c.scope[alias] \o Dot \o col]
        ELSE [err |-> TRUE, src |-> EmptyStr, msg |-> resolveError(parts)]
  ELSE [err |-> FALSE, msg |-> EmptyStr,
        src |-> Join(SubSeq(parts, 1, Len(parts) - 1), Dot) \o Dot \o parts[Len(parts)]]

\* Every ColumnRef below a node, found by the generic walk over the JSON tree.
RECURSIVE ColumnRefsIn(_)
RECURSIVE ColumnRefsInList(_)
ColumnRefsInList(nodes) ==
  IF Len(nodes) = 0 THEN << >>
  ELSE ColumnRefsIn(nodes[1]) \o ColumnRefsInList(Tail(nodes))
ColumnRefsIn(node) ==
  IF node.kind = "ColumnRef" THEN << node >>
  ELSE IF node.kind = "A_Expr" THEN ColumnRefsIn(node.lexpr) \o ColumnRefsIn(node.rexpr)
  ELSE IF node.kind = "FuncCall" THEN ColumnRefsInList(node.args)
  ELSE IF node.kind = "SubLink" THEN ColumnRefsIn(node.subselect)
  ELSE IF node.kind = "ResTarget" THEN ColumnRefsIn(node.val)
  ELSE IF node.kind = "JoinExpr" THEN ColumnRefsIn(node.larg) \o ColumnRefsIn(node.rarg)
  ELSE IF node.kind = "RangeSubselect" THEN ColumnRefsIn(node.subquery)
  ELSE IF node.kind = "SelectStmt" THEN
    ColumnRefsInList([i \in 1..Len(node.withClause) |-> node.withClause[i].ctequery])
      \o ColumnRefsInList(node.targetList) \o ColumnRefsInList(node.fromClause)
      \o ColumnRefsIn(node.whereClause) \o ColumnRefsInList(node.groupClause)
      \o ColumnRefsIn(node.havingClause) \o ColumnRefsInList(node.sortClause)
  ELSE << >>

\* The sources of an expression: each ColumnRef resolved in c, failures dropped.
collectExprSources(c, node) ==
  LET Resolved(refs) ==
        {resolveColumn(c, refs[i].fields) :
           i \in {j \in 1..Len(refs) : Len(refs[j].fields) > 0}}
      Sources(rs) == SortStrings({r.src : r \in {x \in rs : ~x.err}})
  IN  Sources(Resolved(ColumnRefsIn(node)))

s_expr == << "e", "x", "p", "r" >>

RECURSIVE renderExprKey(_)
renderExprKey(node) ==
  IF node.kind = "FuncCall" THEN
    LET crs == SelectSeq(node.args, LAMBDA a : a.kind = "ColumnRef" /\ Len(a.fields) > 0)
        args == [i \in 1..Len(crs) |-> Join(crs[i].fields, Dot)]
    IN  ToUpper(node.funcname) \o << "(" >> \o Join(args, << ",", " " >>) \o << ")" >>
  ELSE IF node.kind = "A_Expr" THEN
    LET l == IF node.lexpr.kind = "nil" THEN EmptyStr ELSE renderExprKey(node.lexpr)
        r == IF node.rexpr.kind = "nil" THEN EmptyStr ELSE renderExprKey(node.rexpr)
    IN  IF l = EmptyStr /\ r = EmptyStr THEN s_expr
        ELSE IF l = EmptyStr THEN r
        ELSE IF r = EmptyStr THEN l
        ELSE l \o << " ", "|", "|", " " >> \o r
  ELSE s_expr

RECURSIVE processSelect(_)
RECURSIVE deriveCTEs(_, _, _)
RECURSIVE buildScope(_, _, _)
RECURSIVE deriveOutputsForRelation(_, _, _, _)

\* c.dc[name] = cols and c.dp[name][k] = v for every k of prov.
SetDerived(c, name, rel) ==
  LET old == MapGet(c.dp, name, EmptyMap)
  IN  [c EXCEPT !.dc = MapPut(c.dc, name, rel.cols),
                !.dp = MapPut(c.dp, name,
                              [k \in DOMAIN old \cup DOMAIN rel.prov |->
                                 IF k \in DOMAIN rel.prov THEN rel.prov[k] ELSE old[k]])]

\* The ctx after the CTEs ctes[i..] are derived by name.
deriveCTEs(c, ctes, i) ==
  IF i > Len(ctes) THEN c
  ELSE deriveCTEs(SetDerived(c, ctes[i].ctename, processSelect(ctes[i].ctequery)), ctes, i + 1)

\* The ctx after the FROM items from[i..] are added (buildScope and
\* buildScopeWithProcess: both derive subselects through processSelect).
buildScope(c, from, i) ==
  IF i > Len(from) THEN c
  ELSE
    LET n == from[i]
        next ==
          IF n.kind = "RangeVar" THEN
            LET rel == IF n.schemaname # EmptyStr
                       THEN n.schemaname \o Dot \o n.relname ELSE n.relname
                alias == IF n.aliasname # EmptyStr THEN n.aliasname ELSE rel
            IN  [c EXCEPT !.scope = MapPut(c.scope, alias, rel)]
          ELSE IF n.kind = "JoinExpr" THEN
            buildScope(buildScope(c, << n.larg >>, 1), << n.rarg >>, 1)
          ELSE IF n.kind = "RangeSubselect" THEN
            LET c1 == IF n.aliasname # EmptyStr
                      THEN [c EXCEPT !.scope = MapPut(c.scope, n.aliasname, n.aliasname)]
                      ELSE c
            IN  SetDerived(c1, n.aliasname, processSelect(n.subquery))
          ELSE c
    IN  buildScope(next, from, i + 1)

\* The exposed outputs [cols, prov] of a select used as a relation, for the
\* targets tlist[i..], appended to acc.
deriveOutputsForRelation(c, tlist, i, acc) ==
  IF i > Len(tlist) THEN acc
  ELSE
    LET rt == tlist[i]
        val == rt.val
        Add(name, srcs) ==
          [cols |-> Append(acc.cols, name), prov |-> MapPut(acc.prov, name, srcs)]
        Column(r) ==
          IF r.err THEN acc
          ELSE Add(stripAliasPrefix(IF rt.name # EmptyStr THEN rt.name
                                    ELSE Join(val.fields, Dot)),
                   << r.src >>)
        Expr(srcs) ==
          IF Len(srcs) = 0 THEN acc
          ELSE Add(stripAliasPrefix(IF rt.name # EmptyStr THEN rt.name
                                    ELSE renderExprKey(val)),
                   uniqueStrings(srcs))
    IN  deriveOutputsForRelation(c, tlist, i + 1,
          IF val.kind = "ColumnRef" THEN
            IF Len(val.fields) = 0 THEN acc ELSE Column(resolveColumn(c, val.fields))
          ELSE Expr(collectExprSources(c, val)))

processSelect(sel) ==
  LET c == buildScope(deriveCTEs(EmptyCtx, sel.withClause, 1), sel.fromClause, 1)
  IN  deriveOutputsForRelation(c, sel.targetList, 1, [cols |-> << >>, prov |-> EmptyMap])

\* Top-level outputs for the targets tlist[i..]: [err, out], out mapping an
\* output label to its appended sources.
RECURSIVE analyzeTargets(_, _, _, _)
analyzeTargets(c, tlist, i, out) ==
  IF i > Len(tlist) THEN [err |-> FALSE, out |-> out, msg |-> EmptyStr]
  ELSE
    LET rt == tlist[i]
        val == rt.val
    IN
    IF val.kind = "ColumnRef" THEN
      IF Len(val.fields) = 0 THEN analyzeTargets(c, tlist, i + 1, out)
      ELSE
        LET parts == val.fields
            Add(outKey, srcs) == MapPut(out, outKey, MapGet(out, outKey, << >>) \o srcs)
            \* srcs is empty when the column did not resolve.
            Column(viaAlias, viaTable, r) ==
              IF Len(viaAlias) > 0 THEN uniqueStrings(viaAlias)
              ELSE IF Len(viaTable) > 0 THEN uniqueStrings(viaTable)
              ELSE IF r.err THEN << >>
              ELSE << r.src >>
            Next(srcs) ==
              IF Len(srcs) = 0 THEN [err |-> TRUE, out |-> EmptyMap, msg |-> resolveError(parts)]
              ELSE analyzeTargets(c, tlist, i + 1,
                     Add(IF rt.name # EmptyStr THEN rt.name ELSE Join(parts, Dot), srcs))
        IN  Next(Column(IF Len(parts) = 2 THEN DPGet(c, parts[1], parts[2]) ELSE << >>,
                        IF Len(parts) = 2 /\ parts[1] \in DOMAIN c.scope
                        THEN DPGet(c, c.scope[parts[1]], parts[2]) ELSE << >>,
                        resolveColumn(c, parts)))
    ELSE
      LET Add(outKey, srcs) == MapPut(out, outKey, MapGet(out, outKey, << >>) \o srcs)
          Next(sources) ==
            analyzeTargets(c, tlist, i + 1,
              IF Len(sources) = 0 THEN out
              ELSE Add(IF rt.name # EmptyStr THEN rt.name ELSE renderExprKey(val),
                       uniqueStrings(sources)))
      IN  Next(collectExprSources(c, val))

\* Returns [err, out, msg].
analyzeSelect(c, sel) ==
  LET Unique(r) ==
        IF r.err THEN r
        ELSE [err |-> FALSE, out |-> [k \in DOMAIN r.out |-> uniqueStrings(r.out[k])],
              msg |-> EmptyStr]
  IN  Unique(analyzeTargets(c, sel.targetList, 1, EmptyMap))

\* Returns [err, out, msg]: the provenance map, or an error and no map.
ResolveProvenance(sql) ==
  IF sql.parse # "select"
    THEN [err |-> TRUE, out |-> EmptyMap,
          msg |-> IF sql.parse = "other" THEN s_only_select ELSE s_parse_error]
  ELSE analyzeSelect(buildScope(deriveCTEs(EmptyCtx, sql.stmt.withClause, 1),
                                sql.stmt.fromClause, 1),
                     sql.stmt)

(***************************************************************************)
(* The SQL texts clients subscribe with                                    *)
(***************************************************************************)

Col1(c) == ResTarget(EmptyStr, ColumnRef(<< c >>))
Col2(a, c) == ResTarget(EmptyStr, ColumnRef(<< a, c >>))
Table(rel) == RangeVar(EmptyStr, rel, EmptyStr)
TableAs(rel, alias) == RangeVar(EmptyStr, rel, alias)

\* SELECT name FROM actor
Q_actor ==
  ParsedSelect(SelectStmt(<< >>, << Col1(s_name) >>, << Table(s_actor) >>, NoNode, << >>))
\* SELECT title FROM film
Q_film ==
  ParsedSelect(SelectStmt(<< >>, << Col1(s_title) >>, << Table(s_film) >>, NoNode, << >>))
\* SELECT a.name, f.title FROM actor a JOIN film f ON f.actor_id = a.id
Q_join ==
  ParsedSelect(SelectStmt(<< >>, << Col2(s_a, s_name), Col2(s_f, s_title) >>,
                          << JoinExpr(TableAs(s_actor, s_a), TableAs(s_film, s_f)) >>,
                          NoNode, << >>))
\* WITH top AS (SELECT id, title FROM film) SELECT id, title FROM top
Q_cte ==
  ParsedSelect(SelectStmt(
    << CommonTableExpr(s_top, SelectStmt(<< >>, << Col1(s_id), Col1(s_title) >>,
                                         << Table(s_film) >>, NoNode, << >>)) >>,
    << Col1(s_id), Col1(s_title) >>, << Table(s_top) >>, NoNode, << >>))
\* SELECT t.title FROM (SELECT title FROM film) t
Q_sub ==
  ParsedSelect(SelectStmt(<< >>, << Col2(s_t, s_title) >>,
    << RangeSubselect(s_t, SelectStmt(<< >>, << Col1(s_title) >>, << Table(s_film) >>,
                                      NoNode, << >>)) >>,
    NoNode, << >>))
\* SELECT title FROM film WHERE actor_id IN (SELECT id FROM actor)
Q_sublink ==
  ParsedSelect(SelectStmt(<< >>, << Col1(s_title) >>, << Table(s_film) >>,
    SubLink(SelectStmt(<< >>, << Col1(s_id) >>, << Table(s_actor) >>, NoNode, << >>)),
    << >>))
\* SELECT name FROM actor, film   (both tables have a column name)
Q_ambig ==
  ParsedSelect(SelectStmt(<< >>, << Col1(s_name) >>, << Table(s_actor), Table(s_film) >>,
                          NoNode, << >>))
\* SELECT body FROM note   (note has no primary key)
Q_note ==
  ParsedSelect(SelectStmt(<< >>, << Col1(s_body) >>, << Table(s_note) >>, NoNode, << >>))
\* SELECT 1
Q_const ==
  ParsedSelect(SelectStmt(<< >>, << ResTarget(EmptyStr, A_Const) >>, << >>, NoNode, << >>))

(***************************************************************************)
(* Live queries (reactive.LiveQuery) and their construction                *)
(* (WSHandler.registerLiveQuery)                                           *)
(***************************************************************************)

\* The first part of strings.SplitN(src, ".", 2), and whether there are two.
SplitHasTwo(src) == IndexByte(src, ".") > 0
SplitFirst(src) == SubSeq(src, 1, IndexByte(src, ".") - 1)

\* tablesSet: "public." + lower-cased table part of every source of prov.
TablesOfProv(prov) ==
  {s_public \o Dot \o ToLower(SplitFirst(src)) :
     src \in {x \in UNION {Range(prov[k]) : k \in DOMAIN prov} : SplitHasTwo(x)}}

\* Returns [err, lq]; id is the fresh uuid, cl the subscribing client and
\* refreshOK whether cat.Refresh succeeded.  Tables is a slice filled in map
\* order; nothing reads its order, so it is kept sorted.
registerLiveQuery(sql, cl, id, refreshOK) ==
  LET none == [ID |-> 0]
      Record(rew, prov, provOrig) ==
        [err |-> FALSE,
         lq |-> [ID |-> id,
                 SQL |-> sql,
                 Rewritten |-> rew.sql,
                 Tables |-> SortStrings(TablesOfProv(prov.out)),
                 PKCols |-> rew.adds,
                 Clients |-> {cl},
                 ProvOrig |-> provOrig.out,
                 ProvRewritten |-> prov.out,
                 PKMapByAlias |-> rew.adds]]
      Resolve(rew) ==
        IF rew.err THEN [err |-> TRUE, lq |-> none]
        ELSE Record(rew, ResolveProvenance(rew.sql), ResolveProvenance(sql))
  IN  IF ~refreshOK THEN [err |-> TRUE, lq |-> none]
      ELSE Resolve(RewriteSelectInjectPKs(sql))

(***************************************************************************)
(* Change records (wal.Change) and the partial refresh engine              *)
(***************************************************************************)

Nil == "nil"

Keys(names, values) == [KeyNames |-> names, KeyValues |-> values]
Change(schema, table, kind, old, new) ==
  [Schema |-> schema, Table |-> table, Kind |-> kind, OldKeys |-> old, NewKeys |-> new]

\* A kv read from the old keys whatever the kind.
KeyMapOldKeys(ch) ==
  [name \in Range(ch.OldKeys.KeyNames) |->
     LET i == CHOOSE j \in 1..Len(ch.OldKeys.KeyNames) : ch.OldKeys.KeyNames[j] = name
     IN  IF i <= Len(ch.OldKeys.KeyValues) THEN ch.OldKeys.KeyValues[i] ELSE Nil]

\* kv of OnMessage: key name -> value, nil when the value is missing.
KeyMap(ch) ==
  LET keys == IF ch.Kind = "insert" THEN ch.NewKeys ELSE ch.OldKeys
  IN  [name \in Range(keys.KeyNames) |->
         LET i == CHOOSE j \in 1..Len(keys.KeyNames) :
                    /\ keys.KeyNames[j] = name
                    /\ \A k \in (j + 1)..Len(keys.KeyNames) : keys.KeyNames[k] # name
         IN  IF i <= Len(keys.KeyValues) THEN keys.KeyValues[i] ELSE Nil]

FQ(ch) == ch.Schema \o Dot \o ch.Table

\* affected of OnMessage: {schema.table -> kv}.
Affected(ch) == MapPut(EmptyMap, FQ(ch), KeyMap(ch))

\* A visitor that takes every live query to reference the table.
containsAlways(xs, s) == TRUE

contains(xs, s) == \E i \in 1..Len(xs) : xs[i] = s

RECURSIVE Flatten(_)
Flatten(ss) == IF Len(ss) = 0 THEN << >> ELSE ss[1] \o Flatten(Tail(ss))

\* The parts of the WHERE clause, in order: [col, val]; part n is
\* "col = $n" with argument val.  aliasOrder and keyOrder[fq] are the
\* orders in which the maps q.PKCols and affected[fq] are ranged over.
buildPKPredicate(q, affected, aliasOrder, keyOrder) ==
  LET fqs == SortStrings(DOMAIN affected)
      ofInjected(injected, fq) ==
        Flatten([k \in 1..Len(keyOrder[fq]) |->
                   IF HasSuffix(injected, Underscore \o keyOrder[fq][k])
                   THEN << [col |-> injected, val |-> affected[fq][keyOrder[fq][k]]] >>
                   ELSE << >>])
      ofTable(alias, fq) ==
        Flatten([j \in 1..Len(q.PKCols[alias]) |-> ofInjected(q.PKCols[alias][j], fq)])
      ofAlias(alias) == Flatten([f \in 1..Len(fqs) |-> ofTable(alias, fqs[f])])
  IN  Flatten([a \in 1..Len(aliasOrder) |-> ofAlias(aliasOrder[a])])

\* The rows SELECT * FROM (<rewritten>) __src WHERE p1 OR p2 ... returns:
\* a row, given as injected column -> value, that satisfies one of the parts.
WhereSelects(where, row) ==
  \E i \in 1..Len(where) : where[i].col \in DOMAIN row /\ row[where[i].col] = where[i].val

\* The orders a run of buildPKPredicate may range over its maps in.
KeyOrders(affected) ==
  {ko \in [DOMAIN affected -> UNION {Perms(DOMAIN affected[fq]) : fq \in DOMAIN affected}] :
     \A fq \in DOMAIN affected : ko[fq] \in Perms(DOMAIN affected[fq])}

\* The column names the rewritten query exposes to the wrapping
\* SELECT * FROM (<rewritten>) __src: the labels of its top-level targets.
s_unnamed == << "?", "c", "o", "l", "u", "m", "n", "?" >>
ProjectionNames(sql) ==
  IF sql.parse # "select" THEN {}
  ELSE {IF t.name # EmptyStr THEN t.name
        ELSE IF t.val.kind = "ColumnRef" /\ Len(t.val.fields) > 0
          THEN t.val.fields[Len(t.val.fields)]
        ELSE s_unnamed : t \in Range(sql.stmt.targetList)}

(***************************************************************************)
(* The running server: connections served by WSHandler.HandleWS, the       *)
(* registry, the change consumer fed by Server.listenWAL and the partial   *)
(* refresh tasks it starts.                                                *)
(***************************************************************************)

VARIABLES
  data,           \* Registry.data: the ids registered
  lqs,            \* every LiveQuery record created so far, by id
  activeQueries,  \* per connection: the ids it subscribed (HandleWS local)
  connOpen,       \* per connection: its read loop is running
  frames,         \* per connection: the frames written to it, in order
  nReq,           \* client frames handled so far
  walPc,          \* listenWAL: "reading", "returned" or "failing"
  pending,        \* OnMessage: the changes of the envelope still to fan out
  changes,        \* the changes fanned out so far, with the registry seen
  missed,         \* changes the sidecar emitted with no reader connected
  tasks           \* the PartialRefresh tasks started, in start order

\* The refresh input under test (rewrite, registration and predicate alone).
VARIABLES
  rq,             \* the SQL and change drawn
  rlq,            \* the live query built from rq.sql
  rwhere,         \* the WHERE parts built for (rlq, rq.change)
  raff,           \* the affected map OnMessage passed to PartialRefresh
  rpc             \* "idle", "input", "registered", "rejected", "skipped", "built"

\* The locks of the registry and of one live query record, and the
\* goroutines that take them.
VARIABLES
  lpc,            \* per goroutine: the index of its next lock step
  mus             \* per mutex: [readers, writer] of a sync.RWMutex

\* One edit request: the handle built or received, and what handleEdit did.
VARIABLES
  hin,            \* the input drawn: the arguments of EncodeHandle, or a handle
  hh,             \* the handle (req.EditHandle)
  hres,           \* what DecodeHandle returned for hh
  hupd,           \* handleEdit's outcome: the status and the UPDATE issued
  hpc             \* "idle", "input", "handle", "done"

\* One editable query: its SQL and what handleEditableQuery answered.
VARIABLES
  sin,            \* the SQL of the request body
  sres,           \* the response: the status and, on success, the row served
  spc             \* "idle", "input", "done"

\* One rewrite: the SQL and what RewriteSelectInjectPKs returned for it and
\* for its own output.
VARIABLES
  win,            \* the SQL given to the rewrite
  wres,           \* [first, second]: the results of the two applications
  wpc             \* "idle", "input", "once", "twice"

\* One provenance resolution: the SQL and what ResolveProvenance returned.
VARIABLES
  pin,            \* the SQL given to the resolver
  pres,           \* [err, out, msg]
  ppc             \* "idle", "input", "done"

\* The connection handlers and the writes to the connections, step by step.
VARIABLES
  kpc,            \* per connection: where HandleWS is, and the reply it owes
  kwire           \* per connection: the calls of conn.WriteJSON begun and ended

\* One CleanupOrphans sweep, the disconnect cleanups and the locks they take.
VARIABLES
  opc,            \* CleanupOrphans: its position, loop state and count
  odc,            \* per connection: where its disconnect cleanup is
  omu             \* the holder of Registry.mu and of each record's Mu

vars == << data, lqs, activeQueries, connOpen, frames, nReq, walPc, pending,
           changes, missed, tasks, rq, rlq, rwhere, raff, rpc, lpc, mus,
           hin, hh, hres, hupd, hpc, sin, sres, spc, win, wres, wpc, pin, pres, ppc,
           kpc, kwire, opc, odc, omu >>
handleVars == << hin, hh, hres, hupd, hpc >>
serVars == << sin, sres, spc >>
rewriteVars == << win, wres, wpc >>
provVars == << pin, pres, ppc >>
raceVars == << kpc, kwire >>
orphanVars == << opc, odc, omu >>
concVars == << raceVars, orphanVars >>
editVars == << handleVars, serVars, rewriteVars, provVars, concVars >>
lockVars == << lpc, mus >>
sysVars == << data, lqs, activeQueries, connOpen, frames, nReq, walPc, pending,
              changes, missed, tasks >>
refreshVars == << rq, rlq, rwhere, raff, rpc >>

\* Bound of the exploration: the client frames handled plus the change
\* records the sidecar emitted.
MaxEvents == 3

Conns == {"c1", "c2"}

\* A subscribe frame without SQL.
MissingSQL == [parse |-> "missing", stmt |-> NoNode]

\* The SQL of the subscribe frames the connections send.
SubscribeSQL == {Q_actor, Q_note, Q_ambig, Q_const, Unparseable, MissingSQL}

v7 == "7"
v5 == "5"

\* The change records the sidecar emits.
ChangeRecords ==
  { Change(s_public, s_actor, "update", Keys(<< s_id >>, << v7 >>), Keys(<< >>, << >>)),
    Change(s_public, s_note, "delete", Keys(<< >>, << >>), Keys(<< >>, << >>)) }

\* The envelopes: zero, one or two change records.
Envelopes ==
  {<< >>} \cup {<< c >> : c \in ChangeRecords}
          \cup {<< c, d >> : c \in ChangeRecords, d \in ChangeRecords}

Frame(type, lq, task) == [type |-> type, lq |-> lq, task |-> task]

SysInit ==
  /\ data = {}
  /\ lqs = << >>
  /\ activeQueries = [c \in Conns |-> << >>]
  /\ connOpen = [c \in Conns |-> TRUE]
  /\ frames = [c \in Conns |-> << >>]
  /\ nReq = 0
  /\ walPc = "reading"
  /\ pending = << >>
  /\ changes = << >>
  /\ missed = 0
  /\ tasks = << >>

\* No edit request is in progress.
HandleIdle ==
  /\ hin = [kind |-> "none"]
  /\ hh = << >>
  /\ hres = [err |-> "none"]
  /\ hupd = [status |-> 0]
  /\ hpc = "idle"

\* No editable query is in progress.
SerIdle ==
  /\ sin = [parse |-> "none"]
  /\ sres = [status |-> 0]
  /\ spc = "idle"

\* No rewrite is in progress.
RewriteIdle ==
  /\ win = [parse |-> "none"]
  /\ wres = [first |-> NoNode, second |-> NoNode]
  /\ wpc = "idle"

\* No provenance resolution is in progress.
ProvIdle ==
  /\ pin = [parse |-> "none"]
  /\ pres = [err |-> FALSE, out |-> EmptyMap, msg |-> EmptyStr]
  /\ ppc = "idle"

\* Every handler waits in ReadMessage and nothing was written.
RaceIdle ==
  /\ kpc = [c \in Conns |-> [pc |-> "read", type |-> "none", lq |-> 0, i |-> 0]]
  /\ kwire = [c \in Conns |-> << >>]

\* No sweep and no cleanup has started; no lock is held.
OrphanIdle ==
  /\ opc = [pc |-> "idle", todo |-> {}, cur |-> 0, noClients |-> FALSE, count |-> 0,
            seen |-> {}, removed |-> {}, runs |-> 0]
  /\ odc = [c \in Conns |-> [pc |-> "open", i |-> 0]]
  /\ omu = [reg |-> "none", readers |-> {}, writers |-> {}]

ConcIdle == RaceIdle /\ OrphanIdle

EditIdle == HandleIdle /\ SerIdle /\ RewriteIdle /\ ProvIdle /\ ConcIdle

RefreshIdle ==
  /\ rq = [sql |-> MissingSQL, change |-> NoNode]
  /\ rlq = [ID |-> 0]
  /\ rwhere = << >>
  /\ raff = EmptyMap
  /\ rpc = "idle"

\* The change records emitted so far, and the events counted by the bound.
ChangesSeen == Len(changes) + Len(pending) + missed
Events == nReq + ChangesSeen

\* wsSend on connection c.
wsSend(fr, c, type, lq, task) == [fr EXCEPT ![c] = Append(@, Frame(type, lq, task))]

\* An Unregister that leaves the map as it is.
UnregisterNothing(d, id) == d

\* Registry.Register / Registry.Unregister
Register(d, q) == d \cup {q.ID}
Unregister(d, id) == d \ {id}

\* The loop of case "unsubscribe" over activeQueries: Unregister of each id.
RECURSIVE UnregisterAll(_, _, _)
UnregisterAll(d, qs, i) ==
  IF i > Len(qs) THEN d ELSE UnregisterAll(Unregister(d, qs[i]), qs, i + 1)

\* HandleWS, case "subscribe".
Subscribe(c, sql, refreshOK) ==
  /\ connOpen[c]
  /\ Events < MaxEvents
  /\ nReq' = nReq + 1
  /\ \E r \in {registerLiveQuery(sql, c, Len(lqs) + 1, refreshOK)} :
         IF sql.parse = "missing" THEN
           /\ frames' = wsSend(frames, c, "error", 0, 0)
           /\ UNCHANGED << data, lqs, activeQueries >>
         ELSE IF r.err THEN
           /\ frames' = wsSend(frames, c, "error", 0, 0)
           /\ UNCHANGED << data, lqs, activeQueries >>
         ELSE
           /\ lqs' = Append(lqs, r.lq)
           /\ data' = Register(data, r.lq)
           /\ activeQueries' = [activeQueries EXCEPT ![c] = Append(@, r.lq.ID)]
           /\ frames' = wsSend(frames, c, "subscribed", r.lq.ID, 0)
  /\ UNCHANGED << connOpen, walPc, pending, changes, missed, tasks >>
  /\ UNCHANGED << refreshVars, lockVars, editVars >>

\* HandleWS, case "unsubscribe".
Unsubscribe(c) ==
  /\ connOpen[c]
  /\ Events < MaxEvents
  /\ nReq' = nReq + 1
  /\ IF Len(activeQueries[c]) = 0 THEN UNCHANGED << data, activeQueries, frames >>
     ELSE /\ data' = UnregisterAll(data, activeQueries[c], 1)
          /\ activeQueries' = [activeQueries EXCEPT ![c] = << >>]
          /\ frames' = wsSend(frames, c, "unsubscribed", 0, 0)
  /\ UNCHANGED << lqs, connOpen, walPc, pending, changes, missed, tasks >>
  /\ UNCHANGED << refreshVars, lockVars, editVars >>

\* HandleWS on a frame that is not JSON or whose type is unknown.
BadFrame(c) ==
  /\ connOpen[c]
  /\ Events < MaxEvents
  /\ nReq' = nReq + 1
  /\ frames' = wsSend(frames, c, "error", 0, 0)
  /\ UNCHANGED << data, lqs, activeQueries, connOpen, walPc, pending, changes,
                  missed, tasks >>
  /\ UNCHANGED << refreshVars, lockVars, editVars >>

\* The cleanup loop of HandleWS over the ids qs[i..]: [lqs, data].
RECURSIVE Cleanup(_, _, _, _, _)
Cleanup(l, d, qs, i, c) ==
  IF i > Len(qs) THEN [lqs |-> l, data |-> d]
  ELSE LET clients == l[qs[i]].Clients \ {c}
           l1 == [l EXCEPT ![qs[i]].Clients = clients]
       IN  Cleanup(l1, IF clients = {} THEN Unregister(d, qs[i]) ELSE d, qs, i + 1, c)

\* HandleWS: ReadMessage fails, the loop ends and the cleanup runs.
Disconnect(c) ==
  /\ connOpen[c]
  /\ connOpen' = [connOpen EXCEPT ![c] = FALSE]
  /\ LET r == Cleanup(lqs, data, activeQueries[c], 1, c)
     IN  /\ lqs' = r.lqs
         /\ data' = r.data
  /\ UNCHANGED << activeQueries, frames, nReq, walPc, pending, changes, missed, tasks >>
  /\ UNCHANGED << refreshVars, lockVars, editVars >>


\* listenWAL decodes an envelope and hands it to Consumer.OnMessage, which
\* returns at once when the envelope has no change.
OnMessage(env) ==
  /\ walPc = "reading"
  /\ pending = << >>
  /\ Events + Len(env) <= MaxEvents
  /\ pending' = env
  /\ UNCHANGED << data, lqs, activeQueries, connOpen, frames, nReq, walPc, changes,
                  missed, tasks >>
  /\ UNCHANGED << refreshVars, lockVars, editVars >>

\* A visitor that returns false (ending ForEach) after its first task.
RECURSIVE ForEachFirstMatch(_, _, _)
ForEachFirstMatch(ids, i, fq) ==
  IF i > Len(ids) THEN << >>
  ELSE IF \E j \in 1..Len(lqs[ids[i]].Tables) : lqs[ids[i]].Tables[j] = fq
    THEN << ids[i] >>
  ELSE ForEachFirstMatch(ids, i + 1, fq)

\* Registry.ForEach with the visitor of OnMessage: the ids whose visit starts
\* a task, in the order visited (ids[i..] of the registry).
RECURSIVE ForEachMatch(_, _, _)
ForEachMatch(ids, i, fq) ==
  IF i > Len(ids) THEN << >>
  ELSE (IF contains(lqs[ids[i]].Tables, fq) THEN << ids[i] >> ELSE << >>)
         \o ForEachMatch(ids, i + 1, fq)

\* The registry's ids in ascending order (a Go map is ranged in any order;
\* the tasks started are the same).
RECURSIVE SortIds(_)
SortIds(S) ==
  IF S = {} THEN << >>
  ELSE LET m == CHOOSE x \in S : \A y \in S : x <= y
       IN  << m >> \o SortIds(S \ {m})

\* OnMessage: one iteration of the loop over env.Change.
FanOut ==
  /\ pending # << >>
  /\ LET ch == Head(pending)
         n == Len(changes) + 1
         matched == ForEachMatch(SortIds(data), 1, FQ(ch))
     IN  /\ changes' = Append(changes, [change |-> ch, fq |-> FQ(ch), reg |-> data])
         /\ tasks' = tasks \o
              [k \in 1..Len(matched) |->
                 [lq |-> matched[k], ch |-> n, affected |-> Affected(ch),
                  pc |-> "started", where |-> << >>, outcome |-> "none",
                  sent |-> << >>]]
  /\ pending' = Tail(pending)
  /\ UNCHANGED << data, lqs, activeQueries, connOpen, frames, nReq, walPc, missed >>
  /\ UNCHANGED << refreshVars, lockVars, editVars >>

\* deps.Broadcast: Send to every client of the record; a closed connection
\* returns an error, which is logged.
RECURSIVE Broadcast(_, _, _, _, _)
Broadcast(fr, clients, type, lq, task) ==
  IF clients = {} THEN fr
  ELSE LET c == CHOOSE x \in clients : TRUE
           fr1 == IF connOpen[c] THEN wsSend(fr, c, type, lq, task) ELSE fr
       IN  Broadcast(fr1, clients \ {c}, type, lq, task)

\* A PartialRefresh that does not look at the serializer's error.
RefreshMessageUnchecked(where, outcome) ==
  IF Len(where) = 0 THEN "none"
  ELSE IF outcome = "query" THEN "error"
  ELSE "update"

\* A PartialRefresh that returns on a query error without a broadcast.
RefreshMessageSilent(where, outcome) ==
  IF Len(where) = 0 THEN "none"
  ELSE IF outcome = "query" THEN "none"
  ELSE IF outcome = "serialize" THEN "error"
  ELSE "update"

\* The message PartialRefresh broadcasts, if any, given the WHERE parts and
\* what the database and the serializer did ("ok", "query", "serialize").
RefreshMessage(where, outcome) ==
  IF Len(where) = 0 THEN "none"
  ELSE IF outcome = "query" THEN "error"
  ELSE IF outcome = "serialize" THEN "error"
  ELSE "update"

\* reactive.PartialRefresh, run by the task t.
PartialRefresh(t, aliasOrder, keyOrder, outcome) ==
  /\ t \in 1..Len(tasks)
  /\ tasks[t].pc = "started"
  /\ LET q == lqs[tasks[t].lq]
         where == buildPKPredicate(q, tasks[t].affected, aliasOrder, keyOrder)
         msg == RefreshMessage(where, outcome)
     IN  /\ aliasOrder \in Perms(DOMAIN q.PKCols)
         /\ keyOrder \in KeyOrders(tasks[t].affected)
         /\ Len(where) = 0 => outcome = "ok"
         /\ tasks' = [tasks EXCEPT ![t].pc = "done", ![t].where = where,
                                   ![t].outcome = IF Len(where) = 0 THEN "none" ELSE outcome,
                                   ![t].sent = IF msg = "none" THEN << >> ELSE << msg >>]
         /\ frames' = IF msg = "none" THEN frames
                      ELSE Broadcast(frames, q.Clients, msg, q.ID, t)
  /\ UNCHANGED << data, lqs, activeQueries, connOpen, nReq, walPc, pending, changes,
                  missed >>
  /\ UNCHANGED << refreshVars, lockVars, editVars >>

\* listenWAL: Decode returns io.EOF, the loop breaks and the function
\* returns; or Decode returns another error, which the decoder keeps
\* returning on every later iteration of the loop.
StreamEnds(err) ==
  /\ walPc = "reading"
  /\ pending = << >>
  /\ walPc' = IF err = "EOF" THEN "returned" ELSE "failing"
  /\ UNCHANGED << data, lqs, activeQueries, connOpen, frames, nReq, pending, changes,
                  missed, tasks >>
  /\ UNCHANGED << refreshVars, lockVars, editVars >>

\* The sidecar emits a change after the stream ended or failed: listenWAL
\* holds no connection that reads it.
SidecarEmits ==
  /\ walPc # "reading"
  /\ Events < MaxEvents
  /\ missed' = missed + 1
  /\ UNCHANGED << data, lqs, activeQueries, connOpen, frames, nReq, walPc, pending,
                  changes, tasks >>
  /\ UNCHANGED << refreshVars, lockVars, editVars >>

(***************************************************************************)
(* The locks: Registry.mu and the Mu of one live query record, both        *)
(* sync.RWMutex, and the goroutines that take them, each as the sequence   *)
(* of its lock steps.  A writer is the goroutine inside Lock or holding    *)
(* the mutex: from the moment it is announced, RLock calls wait.           *)
(***************************************************************************)

NoThread == "none"
RegistryMu == "r.mu"
RecordMu == "q.Mu"
Mutexes == {RegistryMu, RecordMu}

LockStep(op, mu) == [op |-> op, mu |-> mu]

\* deps.Broadcast: RLock, the Send to the record's client, deferred RUnlock.
BroadcastLocks ==
  << LockStep("RLock", RecordMu), LockStep("Send", RecordMu), LockStep("RUnlock", RecordMu) >>

\* A cleanup that calls Unregister before it releases the record's lock.
DisconnectLocksNested ==
  << LockStep("Lock", RecordMu), LockStep("LockWait", RecordMu),
     LockStep("Lock", RegistryMu), LockStep("LockWait", RegistryMu),
     LockStep("Unlock", RegistryMu), LockStep("Unlock", RecordMu) >>

\* HandleWS cleanup on disconnect: the record's write lock, then Unregister.
DisconnectLocks ==
  << LockStep("Lock", RecordMu), LockStep("LockWait", RecordMu), LockStep("Unlock", RecordMu),
     LockStep("Lock", RegistryMu), LockStep("LockWait", RegistryMu),
     LockStep("Unlock", RegistryMu) >>

SnapshotViewLocks ==
  << LockStep("RLock", RegistryMu), LockStep("RLock", RecordMu),
     LockStep("RUnlock", RecordMu), LockStep("RUnlock", RegistryMu) >>

CleanupOrphansLocks ==
  << LockStep("Lock", RegistryMu), LockStep("LockWait", RegistryMu),
     LockStep("RLock", RecordMu), LockStep("RUnlock", RecordMu),
     LockStep("Unlock", RegistryMu) >>

RegisterLocks ==
  << LockStep("Lock", RegistryMu), LockStep("LockWait", RegistryMu),
     LockStep("Unlock", RegistryMu) >>

\* A ForEach whose visitor runs the refresh itself instead of starting a task.
ForEachLocksInline ==
  << LockStep("RLock", RegistryMu), LockStep("RLock", RecordMu),
     LockStep("Send", RecordMu), LockStep("RUnlock", RecordMu),
     LockStep("RUnlock", RegistryMu) >>

\* Registry.ForEach with the visitor of OnMessage, which only starts tasks.
ForEachLocks ==
  << LockStep("RLock", RegistryMu), LockStep("RUnlock", RegistryMu) >>

\* Unregister, as called for an unsubscribe frame.
UnregisterLocks ==
  << LockStep("Lock", RegistryMu), LockStep("LockWait", RegistryMu),
     LockStep("Unlock", RegistryMu) >>

GetLocks ==
  << LockStep("RLock", RegistryMu), LockStep("RUnlock", RegistryMu) >>

Goroutines ==
  [Broadcast |-> BroadcastLocks, HandleWS |-> DisconnectLocks,
   SnapshotView |-> SnapshotViewLocks, CleanupOrphans |-> CleanupOrphansLocks,
   Register |-> RegisterLocks, ForEach |-> ForEachLocks,
   Unregister |-> UnregisterLocks, Get |-> GetLocks]

Threads == DOMAIN Goroutines

LockDone(th) == lpc[th] > Len(Goroutines[th])
\* The step a goroutine is at (its last step once it is done).
StepOf(th) == Goroutines[th][IF LockDone(th) THEN Len(Goroutines[th]) ELSE lpc[th]]
AtOp(th, op) == ~LockDone(th) /\ StepOf(th).op = op

LocksInit ==
  /\ lpc = [th \in Threads |-> 1]
  /\ mus = [m \in Mutexes |-> [readers |-> {}, writer |-> NoThread]]

Advance(th) == lpc' = [lpc EXCEPT ![th] = @ + 1]

\* RWMutex.RLock returns: no writer holds the mutex and none is waiting.
RLock(th) ==
  /\ AtOp(th, "RLock")
  /\ mus[StepOf(th).mu].writer = NoThread
  /\ mus' = [mus EXCEPT ![StepOf(th).mu].readers = @ \cup {th}]
  /\ Advance(th)
  /\ UNCHANGED << sysVars, refreshVars, editVars >>

RUnlock(th) ==
  /\ AtOp(th, "RUnlock")
  /\ mus' = [mus EXCEPT ![StepOf(th).mu].readers = @ \ {th}]
  /\ Advance(th)
  /\ UNCHANGED << sysVars, refreshVars, editVars >>

\* RWMutex.Lock, first half: the writers' mutex is taken and the writer is
\* announced to the readers.
Lock(th) ==
  /\ AtOp(th, "Lock")
  /\ mus[StepOf(th).mu].writer = NoThread
  /\ mus' = [mus EXCEPT ![StepOf(th).mu].writer = th]
  /\ Advance(th)
  /\ UNCHANGED << sysVars, refreshVars, editVars >>

\* RWMutex.Lock returns: the readers have left.
LockWait(th) ==
  /\ AtOp(th, "LockWait")
  /\ mus[StepOf(th).mu].readers = {}
  /\ UNCHANGED mus
  /\ Advance(th)
  /\ UNCHANGED << sysVars, refreshVars, editVars >>

Unlock(th) ==
  /\ AtOp(th, "Unlock")
  /\ mus' = [mus EXCEPT ![StepOf(th).mu].writer = NoThread]
  /\ Advance(th)
  /\ UNCHANGED << sysVars, refreshVars, editVars >>

\* cl.Send returns (conn.WriteJSON wrote the frame); a peer that does not
\* read leaves the goroutine at this step.
SendReturns(th) ==
  /\ AtOp(th, "Send")
  /\ Advance(th)
  /\ UNCHANGED mus
  /\ UNCHANGED << sysVars, refreshVars, editVars >>

\* The goroutines th waits for at its step.
Blockers(th) ==
  IF AtOp(th, "RLock") \/ AtOp(th, "Lock")
    THEN {mus[StepOf(th).mu].writer} \ {NoThread}
  ELSE IF AtOp(th, "LockWait")
    THEN mus[StepOf(th).mu].readers
  ELSE {}

\* The goroutines th waits for, directly or through others.
RECURSIVE WaitsFor(_, _)
WaitsFor(S, n) ==
  IF n = 0 THEN S ELSE WaitsFor(S \cup UNION {Blockers(t) : t \in S}, n - 1)

Init == SysInit /\ RefreshIdle /\ LocksInit /\ EditIdle

Next ==
  \/ \E c \in Conns, sql \in SubscribeSQL, ok \in BOOLEAN : Subscribe(c, sql, ok)
  \/ \E c \in Conns : Unsubscribe(c)
  \/ \E c \in Conns : BadFrame(c)
  \/ \E c \in Conns : Disconnect(c)
  \/ \E env \in Envelopes : OnMessage(env)
  \/ FanOut
  \/ \E t \in 1..Len(tasks), outcome \in {"ok", "query", "serialize"} :
       \E ao \in Perms(DOMAIN lqs[tasks[t].lq].PKCols), ko \in KeyOrders(tasks[t].affected) :
         PartialRefresh(t, ao, ko, outcome)
  \/ \E err \in {"EOF", "other"} : StreamEnds(err)
  \/ SidecarEmits

Spec == Init /\ [][Next]_vars

(***************************************************************************)
(* The refresh inputs alone: one subscribe SQL is registered and the       *)
(* predicate of one change is built for it, as OnMessage and               *)
(* PartialRefresh do for a live query whose Tables contain the change.     *)
(***************************************************************************)

\* SELECT body FROM role t   (role has the primary key (c, b_c))
Q_role ==
  ParsedSelect(SelectStmt(<< >>, << Col1(s_body) >>, << TableAs(s_role, s_t) >>, NoNode, << >>))

\* SELECT a.name FROM actor a JOIN note t ON ...   (nothing of note is projected)
Q_unprojected ==
  ParsedSelect(SelectStmt(<< >>, << Col2(s_a, s_name) >>,
                          << JoinExpr(TableAs(s_actor, s_a), TableAs(s_note, s_t)) >>,
                          NoNode, << >>))
\* SELECT body FROM audit.note   (a table of another schema)
s_audit == << "a", "u", "d", "i", "t" >>
Q_schema ==
  ParsedSelect(SelectStmt(<< >>, << Col1(s_body) >>,
                          << RangeVar(s_audit, s_note, EmptyStr) >>, NoNode, << >>))

RefreshSQL ==
  {Q_actor, Q_film, Q_join, Q_cte, Q_sub, Q_sublink, Q_ambig, Q_note, Q_const, Q_role,
   Q_unprojected, Q_schema, NonSelect, Unparseable}

RefreshChanges ==
  ChangeRecords \cup
  { Change(s_public, s_film, "insert", Keys(<< >>, << >>), Keys(<< s_id >>, << v5 >>)),
    Change(s_public, s_film, "update", Keys(<< s_id >>, << v5 >>), Keys(<< >>, << >>)),
    Change(s_public, s_actor, "delete", Keys(<< s_id >>, << >>), Keys(<< >>, << >>)),
    Change(s_public, s_film, "insert", Keys(<< s_id >>, << v7 >>), Keys(<< s_id >>, << v5 >>)),
    Change(s_public, s_actor, "update", Keys(<< s_id >>, << v7 >>), Keys(<< s_id >>, << v5 >>)),
    Change(s_public, s_role, "update", Keys(<< s_c, s_b_c >>, << v5, v7 >>), Keys(<< >>, << >>)),
    Change(s_public, s_role, "delete", Keys(<< s_c, s_b_c >>, << v5 >>), Keys(<< >>, << >>)),
    Change(s_audit, s_note, "delete", Keys(<< >>, << >>), Keys(<< >>, << >>)) }

RefreshInit ==
  /\ SysInit
  /\ LocksInit
  /\ EditIdle
  /\ rq \in [sql : RefreshSQL, change : RefreshChanges]
  /\ rlq = [ID |-> 0]
  /\ rwhere = << >>
  /\ raff = EmptyMap
  /\ rpc = "input"

\* registerLiveQuery on the SQL drawn.
RegisterInput ==
  /\ rpc = "input"
  /\ \E r \in {registerLiveQuery(rq.sql, "c1", 1, TRUE)} :
       IF r.err THEN rpc' = "rejected" /\ rlq' = rlq
       ELSE rpc' = "registered" /\ rlq' = r.lq
  /\ UNCHANGED << rq, rwhere, raff >>
  /\ UNCHANGED << sysVars, lockVars, editVars >>

\* The visitor of OnMessage returns without a task: Tables lacks the table.
SkipInput ==
  /\ rpc = "registered"
  /\ ~contains(rlq.Tables, FQ(rq.change))
  /\ rpc' = "skipped"
  /\ UNCHANGED << rq, rlq, rwhere, raff >>
  /\ UNCHANGED << sysVars, lockVars, editVars >>

\* buildPKPredicate for the change drawn, the maps ranged over in any order.
BuildInput(aliasOrder, keyOrder) ==
  /\ rpc = "registered"
  /\ contains(rlq.Tables, FQ(rq.change))
  /\ aliasOrder \in Perms(DOMAIN rlq.PKCols)
  /\ keyOrder \in KeyOrders(Affected(rq.change))
  /\ raff' = Affected(rq.change)
  /\ rwhere' = buildPKPredicate(rlq, Affected(rq.change), aliasOrder, keyOrder)
  /\ rpc' = "built"
  /\ UNCHANGED << rq, rlq >>
  /\ UNCHANGED << sysVars, lockVars, editVars >>

RefreshNext ==
  \/ RegisterInput
  \/ SkipInput
  \/ /\ rpc = "registered"
     /\ \E ao \in Perms(DOMAIN rlq.PKCols), ko \in KeyOrders(Affected(rq.change)) :
          BuildInput(ao, ko)

RefreshSpec == RefreshInit /\ [][RefreshNext]_vars

(***************************************************************************)
(* The goroutines and their locks alone.                                   *)
(***************************************************************************)

LockNext ==
  \/ \E th \in Threads : RLock(th)
  \/ \E th \in Threads : RUnlock(th)
  \/ \E th \in Threads : Lock(th)
  \/ \E th \in Threads : LockWait(th)
  \/ \E th \in Threads : Unlock(th)
  \/ \E th \in Threads : SendReturns(th)

LockSpec == Init /\ [][LockNext]_vars

\* The step of one goroutine.  The Go scheduler runs every goroutine that
\* can run, and each Send is taken to return.
LockStepOf(th) ==
  RLock(th) \/ RUnlock(th) \/ Lock(th) \/ LockWait(th) \/ Unlock(th) \/ SendReturns(th)

LockLiveSpec == Init /\ [][LockNext]_vars /\ \A th \in Threads : WF_vars(LockStepOf(th))

(***************************************************************************)
(* Edit handles (common.EncodeHandle, common.DecodeHandle) and the edit    *)
(* request handler (api.handleEdit)                                        *)
(***************************************************************************)

Digits == << "0", "1", "2", "3", "4", "5", "6", "7", "8", "9" >>

\* The position of c in the sequence of characters cs (0 when absent).
PosIn(cs, c) == IF \E i \in 1..Len(cs) : cs[i] = c
                THEN CHOOSE i \in 1..Len(cs) : cs[i] = c ELSE 0

\* The punctuation that occurs in handles, with its byte value.
Punct == << [c |-> " ", b |-> 32], [c |-> ",", b |-> 44], [c |-> "-", b |-> 45],
            [c |-> ".", b |-> 46], [c |-> "<", b |-> 60], [c |-> "=", b |-> 61],
            [c |-> ">", b |-> 62], [c |-> "_", b |-> 95], [c |-> "|", b |-> 124] >>

\* A byte that is none of the characters above.
OtherByte == "\\x"

\* []byte(raw): the byte value of a character.
ByteOf(c) ==
  IF PosIn(Digits, c) > 0 THEN 47 + PosIn(Digits, c)
  ELSE IF PosIn(UpperCase, c) > 0 THEN 64 + PosIn(UpperCase, c)
  ELSE IF PosIn(LowerCase, c) > 0 THEN 96 + PosIn(LowerCase, c)
  ELSE IF \E i \in 1..Len(Punct) : Punct[i].c = c
    THEN Punct[CHOOSE i \in 1..Len(Punct) : Punct[i].c = c].b
  ELSE 0

\* string(b): the character of a byte value.
CharOf(b) ==
  IF b >= 48 /\ b <= 57 THEN Digits[b - 47]
  ELSE IF b >= 65 /\ b <= 90 THEN UpperCase[b - 64]
  ELSE IF b >= 97 /\ b <= 122 THEN LowerCase[b - 96]
  ELSE IF \E i \in 1..Len(Punct) : Punct[i].b = b
    THEN Punct[CHOOSE i \in 1..Len(Punct) : Punct[i].b = b].c
  ELSE OtherByte

\* The alphabet of base64.RawURLEncoding: the character of the value v is
\* encodeURL[v + 1].
encodeURL == UpperCase \o LowerCase \o Digits \o << "-", "_" >>

\* The w bits of n, most significant first, and the number of a bit string.
Bits(n, w) == [i \in 1..w |-> (n \div (2 ^ (w - i))) % 2]
RECURSIVE BitsValue(_)
BitsValue(bs) ==
  IF Len(bs) = 0 THEN 0 ELSE 2 * BitsValue(SubSeq(bs, 1, Len(bs) - 1)) + bs[Len(bs)]

\* base64.RawURLEncoding.EncodeToString: the bytes as one bit string, cut
\* into groups of 6 bits, the last group filled with zero bits; no padding.
EncodeToString(raw) ==
  LET bits == Flatten([i \in 1..Len(raw) |-> Bits(ByteOf(raw[i]), 8)])
      n == (Len(bits) + 5) \div 6
      padded == bits \o [i \in 1..(6 * n - Len(bits)) |-> 0]
  IN  [g \in 1..n |-> encodeURL[BitsValue(SubSeq(padded, 6 * g - 5, 6 * g)) + 1]]

\* base64.RawURLEncoding.DecodeString: [err, b].  A character outside the
\* alphabet (a padding "=" included) and a lone trailing character are
\* errors; the bits left over after the last whole byte are dropped.
DecodeString(h) ==
  IF \E i \in 1..Len(h) : PosIn(encodeURL, h[i]) = 0 THEN [err |-> TRUE, b |-> << >>]
  ELSE IF Len(h) % 4 = 1 THEN [err |-> TRUE, b |-> << >>]
  ELSE LET bits == Flatten([i \in 1..Len(h) |-> Bits(PosIn(encodeURL, h[i]) - 1, 6)])
           n == Len(bits) \div 8
       IN  [err |-> FALSE,
            b |-> [k \in 1..n |-> CharOf(BitsValue(SubSeq(bits, 8 * k - 7, 8 * k)))]]

\* strings.SplitN(s, sep, 2) for a one-character sep.
SplitN2(s, sep) ==
  IF IndexByte(s, sep) = 0 THEN << s >>
  ELSE << SubSeq(s, 1, IndexByte(s, sep) - 1), SubSeq(s, IndexByte(s, sep) + 1, Len(s)) >>

\* A split that never cuts: the whole key part is one item.
SplitNone(s, sep) == << s >>

\* strings.Split(s, sep) for a one-character sep.
RECURSIVE Split(_, _)
Split(s, sep) ==
  IF IndexByte(s, sep) = 0 THEN << s >>
  ELSE << SubSeq(s, 1, IndexByte(s, sep) - 1) >>
         \o Split(SubSeq(s, IndexByte(s, sep) + 1, Len(s)), sep)

\* strings.TrimSpace (the space is the only white space of the model).
RECURSIVE TrimSpace(_)
TrimSpace(s) ==
  IF Len(s) = 0 THEN s
  ELSE IF Head(s) = " " THEN TrimSpace(Tail(s))
  ELSE IF s[Len(s)] = " " THEN TrimSpace(SubSeq(s, 1, Len(s) - 1))
  ELSE s

\* strconv of a non-negative int, as fmt's %v prints it.
RECURSIVE FormatInt(_)
FormatInt(n) ==
  IF n < 10 THEN << Digits[n + 1] >> ELSE FormatInt(n \div 10) \o << Digits[(n % 10) + 1] >>

\* PK values ([]any): a string, an int or nil.
StrVal(s) == [kind |-> "string", s |-> s, n |-> 0]
IntVal(n) == [kind |-> "int", s |-> << >>, n |-> n]
NilVal == [kind |-> "nil", s |-> << >>, n |-> 0]

\* fmt.Sprintf("%v", v)
Sprint(v) ==
  IF v.kind = "string" THEN v.s
  ELSE IF v.kind = "int" THEN FormatInt(v.n)
  ELSE << "<", "n", "i", "l", ">" >>

\* common.EncodeHandle
EncodeHandle(schema, table, pkCols, pkVals) ==
  LET kvPairs == [i \in 1..Len(pkCols) |-> pkCols[i] \o << "=" >> \o Sprint(pkVals[i])]
      raw == schema \o Dot \o table \o << "|" >> \o Join(kvPairs, << "," >>)
  IN  EncodeToString(raw)

\* DecodeHandle: the loop over strings.Split(keyPart, ","), from item i on.
RECURSIVE DecodePairs(_, _, _)
DecodePairs(items, i, pk) ==
  IF i > Len(items) THEN pk
  ELSE IF items[i] = << >> THEN DecodePairs(items, i + 1, pk)
  ELSE IF Len(SplitN2(items[i], "=")) # 2 THEN DecodePairs(items, i + 1, pk)
  ELSE DecodePairs(items, i + 1,
                   MapPut(pk, TrimSpace(SplitN2(items[i], "=")[1]),
                          TrimSpace(SplitN2(items[i], "=")[2])))

\* common.DecodeHandle: [err, schema, table, pk].
DecodeHandle(h) ==
  LET fail(e) == [err |-> e, schema |-> << >>, table |-> << >>, pk |-> EmptyMap]
      Path(split, keyPart) ==
        IF Len(split) # 2 THEN fail("malformed table path")
        ELSE [err |-> "", schema |-> split[1], table |-> split[2],
              pk |-> DecodePairs(Split(keyPart, ","), 1, EmptyMap)]
      Parts(parts) ==
        IF Len(parts) # 2 THEN fail("malformed handle")
        ELSE Path(SplitN2(parts[1], "."), parts[2])
      Decoded(d) == IF d.err THEN fail("invalid base64") ELSE Parts(SplitN2(d.b, "|"))
  IN  Decoded(DecodeString(h))

\* The most PK columns of one handle.
MaxKeys == 2

\* The components EncodeHandle is called with: among them a schema with a
\* dot, a column name with a leading space and a value with a comma.
HandleSchemas == { << "s" >>, << "s", ".", "x" >> }
HandleTables == { << "t" >>, << "t", ".", "u" >> }
HandleCols == { << "a" >>, << "b" >>, << " ", "a" >> }
HandleVals == { StrVal(<< "x", " ", "y" >>), StrVal(<< "x", ",", "y" >>), StrVal(<< >>),
                IntVal(12), NilVal }

\* The payloads of the handles a client sends, well formed or not.
RawPayloads ==
  { << "s", ".", "t", "|", "a", "=", "5" >>,
    << "s", ".", "t", "|", "a", "=", "5", ",", "b", "=", "7" >>,
    << "s", ".", "t", "|", "a", "=", "5", ",", "b" >>,
    << "s", ".", "t", "|", "a" >>,
    << "s", ".", "t", "|" >>,
    << "s", "t", "|", "a", "=", "5" >>,
    << "s", ".", "t" >>,
    << >> }

\* Handles that are not unpadded URL-safe base64.
BadBase64 == { << "Q", "Q", "=", "=" >>, << "Q" >>, << "c", "y", "5", "0", "f", "G", "E", "9", "N", "Q", "+" >> }

EncodeInput(schema, table, cols, vals) ==
  [kind |-> "encode", schema |-> schema, table |-> table, cols |-> cols, vals |-> vals,
   payload |-> << >>, handle |-> << >>, b64 |-> TRUE]
RawInput(payload, handle, b64) ==
  [kind |-> "raw", schema |-> << >>, table |-> << >>, cols |-> << >>, vals |-> << >>,
   payload |-> payload, handle |-> handle, b64 |-> b64]

HandleInputs ==
  UNION { { EncodeInput(sc, tb, cols, vals) :
              sc \in HandleSchemas, tb \in HandleTables,
              cols \in [1..n -> HandleCols], vals \in [1..n -> HandleVals] } :
          n \in 0..MaxKeys }
  \cup { RawInput(r, EncodeToString(r), TRUE) : r \in RawPayloads }
  \cup { RawInput(<< >>, h, FALSE) : h \in BadBase64 }

HandleInit ==
  /\ SysInit
  /\ RefreshIdle
  /\ LocksInit
  /\ hin \in HandleInputs
  /\ hh = << >>
  /\ hres = [err |-> "none"]
  /\ hupd = [status |-> 0]
  /\ hpc = "input"
  /\ SerIdle
  /\ RewriteIdle
  /\ ProvIdle
  /\ ConcIdle

\* The serializer builds the handle of a cell with EncodeHandle.
Encode ==
  /\ hpc = "input"
  /\ hin.kind = "encode"
  /\ hh' = EncodeHandle(hin.schema, hin.table, hin.cols, hin.vals)
  /\ hpc' = "handle"
  /\ UNCHANGED << hin, hres, hupd >>
  /\ UNCHANGED << sysVars, refreshVars, lockVars, serVars, rewriteVars, provVars, concVars >>

\* An edit request arrives with the handle a client chose.
Receive ==
  /\ hpc = "input"
  /\ hin.kind = "raw"
  /\ hh' = hin.handle
  /\ hpc' = "handle"
  /\ UNCHANGED << hin, hres, hupd >>
  /\ UNCHANGED << sysVars, refreshVars, lockVars, serVars, rewriteVars, provVars, concVars >>

\* What handleEdit answers for the result r of DecodeHandle: 400 on an
\* error or an empty pk, else the UPDATE of schema.table WHERE pk it runs.
EditOutcome(r) ==
  IF r.err # "" THEN [status |-> 400, update |-> FALSE, target |-> << >>, where |-> EmptyMap]
  ELSE IF DOMAIN r.pk = {} THEN [status |-> 400, update |-> FALSE, target |-> << >>, where |-> EmptyMap]
  ELSE [status |-> 204, update |-> TRUE, target |-> r.schema \o Dot \o r.table, where |-> r.pk]

\* api.handleEdit on the request carrying hh.
handleEdit ==
  /\ hpc = "handle"
  /\ \E r \in {DecodeHandle(hh)} :
       /\ hres' = r
       /\ hupd' = EditOutcome(r)
  /\ hpc' = "done"
  /\ UNCHANGED << hin, hh >>
  /\ UNCHANGED << sysVars, refreshVars, lockVars, serVars, rewriteVars, provVars, concVars >>

HandleNext == Encode \/ Receive \/ handleEdit

HandleSpec == HandleInit /\ [][HandleNext]_vars

(***************************************************************************)
(* The row serializer (reactive.SerializeEditableRows) and the editable    *)
(* query handler (api.handleEditableQuery)                                 *)
(***************************************************************************)

\* rows.Columns(): the labels the database gives the targets of a select,
\* in order: the output alias, else the column name of a column reference,
\* else the lower-cased name of a function call, else "?column?".
ProjectionCols(sql) ==
  IF sql.parse # "select" THEN << >>
  ELSE [i \in 1..Len(sql.stmt.targetList) |->
          IF sql.stmt.targetList[i].name # EmptyStr THEN sql.stmt.targetList[i].name
          ELSE IF sql.stmt.targetList[i].val.kind = "ColumnRef"
                  /\ Len(sql.stmt.targetList[i].val.fields) > 0
            THEN sql.stmt.targetList[i].val.fields[Len(sql.stmt.targetList[i].val.fields)]
          ELSE IF sql.stmt.targetList[i].val.kind = "FuncCall"
            THEN ToLower(sql.stmt.targetList[i].val.funcname)
          ELSE s_unnamed]

\* splitTableCol: [bt, bc], both empty when s has no dot.
splitTableCol(s) ==
  IF Len(SplitN2(s, ".")) # 2 THEN [bt |-> << >>, bc |-> << >>]
  ELSE [bt |-> SplitN2(s, ".")[1], bc |-> SplitN2(s, ".")[2]]

\* indexOf: the first position of target in list, 0 when absent (Go: -1).
indexOf(list, target) ==
  IF \E i \in 1..Len(list) : list[i] = target
  THEN CHOOSE i \in 1..Len(list) : list[i] = target /\ \A j \in 1..(i - 1) : list[j] # target
  ELSE 0

\* pkOwner of SerializeEditableRows: _pk_* column -> (baseTable, pkCol).
pkOwnerOf(cols, provRewritten) ==
  [c \in {x \in Range(cols) :
            /\ HasPrefix(x, s_pk)
            /\ x \in DOMAIN provRewritten
            /\ Len(provRewritten[x]) > 0
            /\ splitTableCol(provRewritten[x][1]).bt # << >>
            /\ splitTableCol(provRewritten[x][1]).bc # << >>}
     |-> splitTableCol(provRewritten[c][1])]

\* The injected columns of all aliases, the aliases ranged over in aliasOrder.
InjectedIn(pkMapByAlias, aliasOrder) ==
  Flatten([a \in 1..Len(aliasOrder) |-> pkMapByAlias[aliasOrder[a]]])

\* buildPKByBase from the injected column injected[i] on: base table ->
\* pk column -> value of this row.
RECURSIVE PKByBaseFrom(_, _, _, _, _, _)
PKByBaseFrom(injected, i, cols, values, pkOwner, acc) ==
  IF i > Len(injected) THEN acc
  ELSE IF injected[i] \notin DOMAIN pkOwner
    THEN PKByBaseFrom(injected, i + 1, cols, values, pkOwner, acc)
  ELSE LET Put(meta, idx, bucket) ==
             MapPut(acc, meta.bt,
                    IF idx > 0 THEN MapPut(bucket, meta.bc, values[idx]) ELSE bucket)
           At(meta) == Put(meta, indexOf(cols, injected[i]), MapGet(acc, meta.bt, EmptyMap))
       IN  PKByBaseFrom(injected, i + 1, cols, values, pkOwner, At(pkOwner[injected[i]]))

buildPKByBase(cols, values, pkMapByAlias, pkOwner, aliasOrder) ==
  PKByBaseFrom(InjectedIn(pkMapByAlias, aliasOrder), 1, cols, values, pkOwner, EmptyMap)

\* An originsForColumn without the suffix match: the exact label or nothing.
originsExactOnly(col, prov) ==
  IF col \in DOMAIN prov /\ Len(prov[col]) > 0 THEN prov[col] ELSE << >>

\* originsForColumn: the sources of the exact label, else the first source
\* of the one key ending in ".<col>", else nothing.
originsForColumn(col, prov) ==
  IF col \in DOMAIN prov /\ Len(prov[col]) > 0 THEN prov[col]
  ELSE LET found == {k \in DOMAIN prov : HasSuffix(k, Dot \o col) /\ Len(prov[k]) > 0}
       IN  IF Cardinality(found) = 1 THEN << prov[CHOOSE k \in found : TRUE][1] >>
           ELSE << >>

\* extractOrderForBase from the injected column injected[i] on.
RECURSIVE OrderFrom(_, _, _, _, _)
OrderFrom(injected, i, base, provRewritten, order) ==
  IF i > Len(injected) THEN order
  ELSE IF /\ injected[i] \in DOMAIN provRewritten
          /\ Len(provRewritten[injected[i]]) > 0
          /\ splitTableCol(provRewritten[injected[i]][1]).bt = base
          /\ splitTableCol(provRewritten[injected[i]][1]).bc \notin Range(order)
    THEN OrderFrom(injected, i + 1, base, provRewritten,
                   Append(order, splitTableCol(provRewritten[injected[i]][1]).bc))
  ELSE OrderFrom(injected, i + 1, base, provRewritten, order)

extractOrderForBase(base, pkMapByAlias, provRewritten, aliasOrder) ==
  OrderFrom(InjectedIn(pkMapByAlias, aliasOrder), 1, base, provRewritten, << >>)

\* computeEditHandle; the empty string is the empty handle.  The fallback
\* order over vals is taken sorted (it is taken only when no injected
\* column maps to bt, and then vals has no entry).
computeEditHandle(col, pkByBase, provOrig, pkMapByAlias, provRewritten, aliasOrder) ==
  LET Encoded(bt, vals, order) ==
        EncodeHandle(s_public, bt, order, [i \in 1..Len(order) |-> MapGet(vals, order[i], NilVal)])
      Ordered(bt, vals, order) ==
        Encoded(bt, vals, IF Len(order) = 0 THEN SortStrings(DOMAIN vals) ELSE order)
      OfTable(bt) ==
        IF bt = << >> THEN << >>
        ELSE IF bt \notin DOMAIN pkByBase THEN << >>
        ELSE IF DOMAIN pkByBase[bt] = {} THEN << >>
        ELSE Ordered(bt, pkByBase[bt],
                     extractOrderForBase(bt, pkMapByAlias, provRewritten, aliasOrder))
      OfSources(srcs) == IF Len(srcs) = 0 THEN << >> ELSE OfTable(splitTableCol(srcs[1]).bt)
  IN  OfSources(originsForColumn(col, provOrig))

\* The loop of SerializeEditableRows over the columns of one row, from
\* column i on: the EditableRow built.
RECURSIVE RowFrom(_, _, _, _, _, _, _, _, _)
RowFrom(i, cols, values, pkByBase, provOrig, pkMapByAlias, provRewritten, aliasOrder, row) ==
  IF i > Len(cols) THEN row
  ELSE IF HasPrefix(cols[i], s_pk)
    THEN RowFrom(i + 1, cols, values, pkByBase, provOrig, pkMapByAlias, provRewritten,
                 aliasOrder, row)
  ELSE RowFrom(i + 1, cols, values, pkByBase, provOrig, pkMapByAlias, provRewritten,
               aliasOrder,
               MapPut(row, cols[i],
                      [Value |-> values[i],
                       EditHandle |-> computeEditHandle(cols[i], pkByBase, provOrig,
                                                        pkMapByAlias, provRewritten,
                                                        aliasOrder)]))

\* SerializeEditableRows on one row.  byBaseOrder and orderOrder are the
\* orders in which buildPKByBase and extractOrderForBase range over the map
\* pkMapByAlias.
SerializeEditableRows(cols, values, pkMapByAlias, provOrig, provRewritten, byBaseOrder, orderOrder) ==
  RowFrom(1, cols, values,
          buildPKByBase(cols, values, pkMapByAlias, pkOwnerOf(cols, provRewritten), byBaseOrder),
          provOrig, pkMapByAlias, provRewritten, orderOrder, EmptyMap)

s_other == << "o", "t", "h", "e", "r" >>
s_full == << "f", "u", "l", "l" >>
s_total == << "t", "o", "t", "a", "l" >>
s_sum == << "s", "u", "m" >>

\* SELECT name FROM public.actor
S_qualified ==
  ParsedSelect(SelectStmt(<< >>, << Col1(s_name) >>,
                          << RangeVar(s_public, s_actor, EmptyStr) >>, NoNode, << >>))
\* SELECT a.name, t.name AS other FROM actor a JOIN actor t ON ...
S_twice ==
  ParsedSelect(SelectStmt(<< >>,
    << Col2(s_a, s_name), ResTarget(s_other, ColumnRef(<< s_t, s_name >>)) >>,
    << JoinExpr(TableAs(s_actor, s_a), TableAs(s_actor, s_t)) >>, NoNode, << >>))
\* SELECT a.name || a.id FROM actor a
S_concat ==
  ParsedSelect(SelectStmt(<< >>,
    << ResTarget(EmptyStr, A_Expr(ColumnRef(<< s_a, s_name >>), ColumnRef(<< s_a, s_id >>))) >>,
    << TableAs(s_actor, s_a) >>, NoNode, << >>))
\* SELECT a.name || a.id AS full FROM actor a
S_concat_as ==
  ParsedSelect(SelectStmt(<< >>,
    << ResTarget(s_full, A_Expr(ColumnRef(<< s_a, s_name >>), ColumnRef(<< s_a, s_id >>))) >>,
    << TableAs(s_actor, s_a) >>, NoNode, << >>))
\* SELECT SUM(f.actor_id) FROM film f
S_sum ==
  ParsedSelect(SelectStmt(<< >>,
    << ResTarget(EmptyStr, FuncCall(s_sum, << ColumnRef(<< s_f, s_actor_id >>) >>)) >>,
    << TableAs(s_film, s_f) >>, NoNode, << >>))
\* SELECT SUM(f.actor_id) AS total FROM film f
S_sum_as ==
  ParsedSelect(SelectStmt(<< >>,
    << ResTarget(s_total, FuncCall(s_sum, << ColumnRef(<< s_f, s_actor_id >>) >>)) >>,
    << TableAs(s_film, s_f) >>, NoNode, << >>))

\* The SQL of the editable queries.
SerSQL ==
  {Q_actor, Q_film, S_qualified, S_twice, Q_join, S_concat, S_concat_as, S_sum, S_sum_as,
   Q_note, Q_sub, Q_cte, Q_ambig, Unparseable}

\* The values a row holds: in its injected PK columns and in the others.
PKVals == {IntVal(5), IntVal(7)}
DataVals == {StrVal(<< "x" >>), NilVal}
RowValues(cols) ==
  {v \in [1..Len(cols) -> PKVals \cup DataVals] :
     \A i \in 1..Len(cols) : v[i] \in (IF HasPrefix(cols[i], s_pk) THEN PKVals ELSE DataVals)}

SerInit ==
  /\ SysInit
  /\ RefreshIdle
  /\ LocksInit
  /\ HandleIdle
  /\ RewriteIdle
  /\ ProvIdle
  /\ ConcIdle
  /\ sin \in SerSQL
  /\ sres = [status |-> 0]
  /\ spc = "input"

\* The answer of handleEditableQuery that is an error.
SerError(status) ==
  [status |-> status, cols |-> << >>, values |-> << >>, adds |-> EmptyMap,
   provOrig |-> EmptyMap, provRewritten |-> EmptyMap, row |-> EmptyMap]

\* api.handleEditableQuery: provenance of the original SQL, the rewrite,
\* provenance of the rewritten SQL, the query and the serialization of a
\* row of its result.
handleEditableQuery ==
  /\ spc = "input"
  /\ spc' = "done"
  /\ \E po \in {ResolveProvenance(sin)} :
       IF po.err THEN sres' = SerError(IF sin.parse = "error" THEN 400 ELSE 500)
       ELSE \E rw \in {RewriteSelectInjectPKs(sin)} :
         IF rw.err THEN sres' = SerError(500)
         ELSE \E pr \in {ResolveProvenance(rw.sql)} :
           IF pr.err THEN sres' = SerError(500)
           ELSE \E cols \in {ProjectionCols(rw.sql)} :
             \/ sres' = SerError(400)
             \/ \E values \in RowValues(cols) :
                  \E o1 \in Perms(DOMAIN rw.adds), o2 \in Perms(DOMAIN rw.adds) :
                    sres' = [status |-> 200, cols |-> cols, values |-> values,
                             adds |-> rw.adds, provOrig |-> po.out,
                             provRewritten |-> pr.out,
                             row |-> SerializeEditableRows(cols, values, rw.adds, po.out,
                                                           pr.out, o1, o2)]
  /\ UNCHANGED sin
  /\ UNCHANGED << sysVars, refreshVars, lockVars, handleVars, rewriteVars, provVars, concVars >>

SerNext == handleEditableQuery

SerSpec == SerInit /\ [][SerNext]_vars

(***************************************************************************)
(* Specification of the rewrite alone: RewriteSelectInjectPKs applied to   *)
(* a select and then to its own output.                                    *)
(***************************************************************************)

\* SELECT name FROM actor, the body of the CTEs, subselects and sublinks.
InnerSelect ==
  SelectStmt(<< >>, << Col1(s_name) >>, << Table(s_actor) >>, NoNode, << >>)

\* The FROM clauses: one table without and with an alias, joins whose
\* aliases are written in and against sorted order, the table role (PK c,
\* b_c) under the aliases a_b and a, role alone, a subselect, a table
\* without PK, and no FROM clause.
RewriteFroms ==
  { << Table(s_actor) >>,
    << TableAs(s_actor, s_a) >>,
    << JoinExpr(TableAs(s_actor, s_a), TableAs(s_film, s_f)) >>,
    << JoinExpr(TableAs(s_film, s_f), TableAs(s_actor, s_a)) >>,
    << JoinExpr(TableAs(s_role, s_a_b), TableAs(s_role, s_a)) >>,
    << TableAs(s_role, s_t) >>,
    << RangeSubselect(s_t, InnerSelect) >>,
    << Table(s_note) >>,
    << >> }

\* The projection lists: one column, two columns, a column the user named
\* like an injected one, and a sublink.
RewriteTargets ==
  { << Col1(s_name) >>,
    << Col1(s_name), Col1(s_body) >>,
    << ResTarget(s_pk \o s_actor \o Underscore \o s_id, ColumnRef(<< s_name >>)) >>,
    << ResTarget(s_other, SubLink(InnerSelect)) >> }

\* Without and with a GROUP BY list.
RewriteGroups == { << >>, << ColumnRef(<< s_name >>) >> }

\* Without and with a CTE.
RewriteWiths == { << >>, << CommonTableExpr(s_top, InnerSelect) >> }

RewriteSQL ==
  {ParsedSelect(SelectStmt(w, t, f, NoNode, g)) :
     w \in RewriteWiths, t \in RewriteTargets, f \in RewriteFroms, g \in RewriteGroups}
  \cup {NonSelect, Unparseable}

RewriteInit ==
  /\ SysInit
  /\ RefreshIdle
  /\ LocksInit
  /\ HandleIdle
  /\ SerIdle
  /\ ProvIdle
  /\ ConcIdle
  /\ win \in RewriteSQL
  /\ wres = [first |-> NoNode, second |-> NoNode]
  /\ wpc = "input"

\* RewriteSelectInjectPKs(sql, cat).
Rewrite ==
  /\ wpc = "input"
  /\ wres' = [wres EXCEPT !.first = RewriteSelectInjectPKs(win)]
  /\ wpc' = "once"
  /\ UNCHANGED win
  /\ UNCHANGED << sysVars, refreshVars, lockVars, handleVars, serVars, provVars, concVars >>

\* RewriteSelectInjectPKs applied to the SQL the first application returned.
RewriteAgain ==
  /\ wpc = "once"
  /\ ~wres.first.err
  /\ wres' = [wres EXCEPT !.second = RewriteSelectInjectPKs(wres.first.sql)]
  /\ wpc' = "twice"
  /\ UNCHANGED win
  /\ UNCHANGED << sysVars, refreshVars, lockVars, handleVars, serVars, provVars, concVars >>

RewriteNext == Rewrite \/ RewriteAgain

RewriteSpec == RewriteInit /\ [][RewriteNext]_vars

(***************************************************************************)
(* Specification of the resolver alone: ResolveProvenance applied to a     *)
(* select of one column.                                                   *)
(***************************************************************************)

\* The FROM clauses: two tables that share the column name, written with a
\* comma and as a join under aliases, a table joined with one that shares
\* no column, one table under two aliases, a schema-qualified table beside
\* another, three tables, one table, and a table beside a subselect.
ProvFroms ==
  { << Table(s_actor), Table(s_film) >>,
    << JoinExpr(TableAs(s_actor, s_a), TableAs(s_film, s_f)) >>,
    << JoinExpr(Table(s_actor), Table(s_note)) >>,
    << JoinExpr(TableAs(s_role, s_a_b), TableAs(s_role, s_a)) >>,
    << RangeVar(s_public, s_actor, EmptyStr), Table(s_film) >>,
    << Table(s_actor), Table(s_film), Table(s_role) >>,
    << Table(s_film) >>,
    << Table(s_note), RangeSubselect(s_t, InnerSelect) >> }

\* The columns selected, unqualified: of one table, of two, of none.
ProvCols == { s_id, s_name, s_title, s_body, s_actor_id, s_c, s_other }

\* The one projection item: the column, bare or under an output alias.
ProvTargets ==
  { << Col1(c) >> : c \in ProvCols } \cup { << ResTarget(s_full, ColumnRef(<< c >>)) >> : c \in ProvCols }

ProvSQL ==
  {ParsedSelect(SelectStmt(<< >>, t, f, NoNode, << >>)) : t \in ProvTargets, f \in ProvFroms}
  \cup {NonSelect, Unparseable}

ProvInit ==
  /\ SysInit
  /\ RefreshIdle
  /\ LocksInit
  /\ HandleIdle
  /\ SerIdle
  /\ RewriteIdle
  /\ ConcIdle
  /\ pin \in ProvSQL
  /\ pres = [err |-> FALSE, out |-> EmptyMap, msg |-> EmptyStr]
  /\ ppc = "input"

\* ResolveProvenance(sql, cat).
Resolve ==
  /\ ppc = "input"
  /\ pres' = ResolveProvenance(pin)
  /\ ppc' = "done"
  /\ UNCHANGED pin
  /\ UNCHANGED << sysVars, refreshVars, lockVars, handleVars, serVars, rewriteVars, concVars >>

ProvNext == Resolve

ProvSpec == ProvInit /\ [][ProvNext]_vars

(***************************************************************************)
(* HandleWS and PartialRefresh step by step: registerLiveQuery returns     *)
(* before the reply is written, every conn.WriteJSON begins and ends, and  *)
(* the change consumer and the refresh tasks run in between.  The loop of  *)
(* HandleWS reads the next frame when the reply to the last one is         *)
(* written.                                                                *)
(***************************************************************************)

\* The SQL of the subscribe frames.
RaceSQL == {Q_actor, Q_note, Unparseable}

\* One end of a call of conn.WriteJSON: ev is "begin" or "end", w the
\* goroutine writing (0 the handler, t the refresh task t).
WireEvent(ev, w, type, lq) == [ev |-> ev, w |-> w, type |-> type, lq |-> lq]

\* The handler of c is about to call wsSend(type, ...).
Owes(c, type, lq) == [kpc EXCEPT ![c] = [pc |-> "reply", type |-> type, lq |-> lq, i |-> 0]]

\* HandleWS, case "subscribe", up to the return of registerLiveQuery, which
\* ends with Registry.Register.
HandleSubscribe(c, sql) ==
  /\ connOpen[c]
  /\ kpc[c].pc = "read"
  /\ Events < MaxEvents
  /\ nReq' = nReq + 1
  /\ \E r \in {registerLiveQuery(sql, c, Len(lqs) + 1, TRUE)} :
       IF r.err THEN
         /\ kpc' = Owes(c, "error", 0)
         /\ UNCHANGED << data, lqs, activeQueries >>
       ELSE
         /\ lqs' = Append(lqs, r.lq)
         /\ data' = Register(data, r.lq)
         /\ activeQueries' = [activeQueries EXCEPT ![c] = Append(@, r.lq.ID)]
         /\ kpc' = Owes(c, "subscribed", r.lq.ID)
  /\ UNCHANGED << connOpen, frames, walPc, pending, changes, missed, tasks, kwire >>
  /\ UNCHANGED << refreshVars, lockVars, handleVars, serVars, rewriteVars, provVars,
                  orphanVars >>

\* HandleWS, case "unsubscribe": with no active query the loop continues.
HandleUnsubscribe(c) ==
  /\ connOpen[c]
  /\ kpc[c].pc = "read"
  /\ Events < MaxEvents
  /\ nReq' = nReq + 1
  /\ kpc' = IF Len(activeQueries[c]) = 0 THEN kpc
            ELSE [kpc EXCEPT ![c] = [pc |-> "unregister", type |-> "none", lq |-> 0, i |-> 1]]
  /\ UNCHANGED << data, lqs, activeQueries, connOpen, frames, walPc, pending, changes,
                  missed, tasks, kwire >>
  /\ UNCHANGED << refreshVars, lockVars, handleVars, serVars, rewriteVars, provVars,
                  orphanVars >>

\* One iteration of the loop of case "unsubscribe": Unregister(q.ID).  After
\* the last one activeQueries is set to nil.
UnregisterEach(c) ==
  /\ kpc[c].pc = "unregister"
  /\ data' = Unregister(data, activeQueries[c][kpc[c].i])
  /\ IF kpc[c].i = Len(activeQueries[c])
       THEN /\ activeQueries' = [activeQueries EXCEPT ![c] = << >>]
            /\ kpc' = Owes(c, "unsubscribed", 0)
       ELSE /\ kpc' = [kpc EXCEPT ![c].i = @ + 1]
            /\ UNCHANGED activeQueries
  /\ UNCHANGED << lqs, connOpen, frames, nReq, walPc, pending, changes, missed, tasks,
                  kwire >>
  /\ UNCHANGED << refreshVars, lockVars, handleVars, serVars, rewriteVars, provVars,
                  orphanVars >>

\* HandleWS on a frame that is not JSON or whose type is unknown.
HandleBadFrame(c) ==
  /\ connOpen[c]
  /\ kpc[c].pc = "read"
  /\ Events < MaxEvents
  /\ nReq' = nReq + 1
  /\ kpc' = Owes(c, "error", 0)
  /\ UNCHANGED << data, lqs, activeQueries, connOpen, frames, walPc, pending, changes,
                  missed, tasks, kwire >>
  /\ UNCHANGED << refreshVars, lockVars, handleVars, serVars, rewriteVars, provVars,
                  orphanVars >>

\* wsSend called by the handler: conn.WriteJSON begins.  No lock is taken.
WriteJSONBegin(c) ==
  /\ kpc[c].pc = "reply"
  /\ kwire' = [kwire EXCEPT ![c] = Append(@, WireEvent("begin", 0, kpc[c].type, kpc[c].lq))]
  /\ kpc' = [kpc EXCEPT ![c].pc = "writing"]
  /\ UNCHANGED sysVars
  /\ UNCHANGED << refreshVars, lockVars, handleVars, serVars, rewriteVars, provVars,
                  orphanVars >>

\* conn.WriteJSON returns to the handler, which reads the next frame.
WriteJSONEnd(c) ==
  /\ kpc[c].pc = "writing"
  /\ kwire' = [kwire EXCEPT ![c] = Append(@, WireEvent("end", 0, kpc[c].type, kpc[c].lq))]
  /\ frames' = wsSend(frames, c, kpc[c].type, kpc[c].lq, 0)
  /\ kpc' = [kpc EXCEPT ![c] = [pc |-> "read", type |-> "none", lq |-> 0, i |-> 0]]
  /\ UNCHANGED << data, lqs, activeQueries, connOpen, nReq, walPc, pending, changes,
                  missed, tasks >>
  /\ UNCHANGED << refreshVars, lockVars, handleVars, serVars, rewriteVars, provVars,
                  orphanVars >>

\* reactive.PartialRefresh run by the task t, up to its call of Broadcast.
RefreshQuery(t, aliasOrder, keyOrder, outcome) ==
  /\ t \in 1..Len(tasks)
  /\ tasks[t].pc = "started"
  /\ LET q == lqs[tasks[t].lq]
         where == buildPKPredicate(q, tasks[t].affected, aliasOrder, keyOrder)
         msg == RefreshMessage(where, outcome)
     IN  /\ aliasOrder \in Perms(DOMAIN q.PKCols)
         /\ keyOrder \in KeyOrders(tasks[t].affected)
         /\ Len(where) = 0 => outcome = "ok"
         /\ tasks' = [tasks EXCEPT ![t].pc = IF msg = "none" THEN "done" ELSE "broadcast",
                                   ![t].where = where,
                                   ![t].outcome = IF Len(where) = 0 THEN "none" ELSE outcome,
                                   ![t].sent = IF msg = "none" THEN << >> ELSE << msg >>]
  /\ UNCHANGED << data, lqs, activeQueries, connOpen, frames, nReq, walPc, pending,
                  changes, missed, kwire, kpc >>
  /\ UNCHANGED << refreshVars, lockVars, handleVars, serVars, rewriteVars, provVars,
                  orphanVars >>

\* The Broadcast closure: lq.Mu.RLock, which other readers do not delay, and
\* cl.Send for the client cl of lq.Clients (registerLiveQuery puts one client
\* there and nothing adds another): conn.WriteJSON begins.
SendBegin(t, c) ==
  /\ t \in 1..Len(tasks)
  /\ tasks[t].pc = "broadcast"
  /\ c \in lqs[tasks[t].lq].Clients
  /\ kwire' = [kwire EXCEPT ![c] = Append(@, WireEvent("begin", t, tasks[t].sent[1], tasks[t].lq))]
  /\ tasks' = [tasks EXCEPT ![t].pc = "writing"]
  /\ UNCHANGED << data, lqs, activeQueries, connOpen, frames, nReq, walPc, pending,
                  changes, missed, kpc >>
  /\ UNCHANGED << refreshVars, lockVars, handleVars, serVars, rewriteVars, provVars,
                  orphanVars >>

\* cl.Send returns and Broadcast releases the record's read lock.
SendEnd(t, c) ==
  /\ t \in 1..Len(tasks)
  /\ tasks[t].pc = "writing"
  /\ c \in lqs[tasks[t].lq].Clients
  /\ kwire' = [kwire EXCEPT ![c] = Append(@, WireEvent("end", t, tasks[t].sent[1], tasks[t].lq))]
  /\ frames' = wsSend(frames, c, tasks[t].sent[1], tasks[t].lq, t)
  /\ tasks' = [tasks EXCEPT ![t].pc = "done"]
  /\ UNCHANGED << data, lqs, activeQueries, connOpen, nReq, walPc, pending, changes,
                  missed, kpc >>
  /\ UNCHANGED << refreshVars, lockVars, handleVars, serVars, rewriteVars, provVars,
                  orphanVars >>

RaceNext ==
  \/ \E c \in Conns, sql \in RaceSQL : HandleSubscribe(c, sql)
  \/ \E c \in Conns : HandleUnsubscribe(c)
  \/ \E c \in Conns : UnregisterEach(c)
  \/ \E c \in Conns : HandleBadFrame(c)
  \/ \E c \in Conns : WriteJSONBegin(c)
  \/ \E c \in Conns : WriteJSONEnd(c)
  \/ \E env \in Envelopes : OnMessage(env)
  \/ FanOut
  \/ \E t \in 1..Len(tasks), outcome \in {"ok", "query", "serialize"} :
       \E ao \in Perms(DOMAIN lqs[tasks[t].lq].PKCols), ko \in KeyOrders(tasks[t].affected) :
         RefreshQuery(t, ao, ko, outcome)
  \/ \E t \in 1..Len(tasks), c \in Conns : SendBegin(t, c)
  \/ \E t \in 1..Len(tasks), c \in Conns : SendEnd(t, c)

RaceSpec == Init /\ [][RaceNext]_vars

(***************************************************************************)
(* Registry.CleanupOrphans step by step, with the subscribes, the          *)
(* unsubscribes and the disconnect cleanups that run beside it.  Register  *)
(* and Unregister take Registry.mu for one map operation; the sweep holds  *)
(* it from its first statement to its return.                              *)
(***************************************************************************)

\* The sweeps run.
MaxSweeps == 1

\* A test of the subscriber set that takes every record for an orphan.
noClientsAlways(q) == TRUE

\* noClients := len(q.Clients) == 0
noClients(q) == Cardinality(q.Clients) = 0

\* HandleWS, case "subscribe": Register waits for Registry.mu.
OrphanSubscribe(c) ==
  /\ omu.reg = NoThread
  /\ odc[c].pc = "open"
  /\ Subscribe(c, Q_actor, TRUE)

\* HandleWS, case "unsubscribe": Unregister waits for Registry.mu.
OrphanUnsubscribe(c) ==
  /\ omu.reg = NoThread
  /\ odc[c].pc = "open"
  /\ Unsubscribe(c)

\* HandleWS: ReadMessage fails and the loop ends.
ReadFails(c) ==
  /\ connOpen[c]
  /\ odc[c].pc = "open"
  /\ connOpen' = [connOpen EXCEPT ![c] = FALSE]
  /\ odc' = [odc EXCEPT ![c] = [pc |-> "cleanup", i |-> 1]]
  /\ UNCHANGED << data, lqs, activeQueries, frames, nReq, walPc, pending, changes,
                  missed, tasks, opc, omu >>
  /\ UNCHANGED << refreshVars, lockVars, handleVars, serVars, rewriteVars, provVars,
                  raceVars >>

\* The live query the cleanup of c is at.
CleanupAt(c) == activeQueries[c][odc[c].i]

\* The cleanup loop: q.Mu.Lock() returns when the record has no reader.
CleanupLock(c) ==
  /\ odc[c].pc = "cleanup"
  /\ odc[c].i <= Len(activeQueries[c])
  /\ CleanupAt(c) \notin omu.readers
  /\ CleanupAt(c) \notin omu.writers
  /\ omu' = [omu EXCEPT !.writers = @ \cup {CleanupAt(c)}]
  /\ odc' = [odc EXCEPT ![c].pc = "locked"]
  /\ UNCHANGED << sysVars, opc >>
  /\ UNCHANGED << refreshVars, lockVars, handleVars, serVars, rewriteVars, provVars,
                  raceVars >>

\* delete(q.Clients, cl); empty := len(q.Clients) == 0; q.Mu.Unlock()
CleanupDelete(c) ==
  /\ odc[c].pc = "locked"
  /\ lqs' = [lqs EXCEPT ![CleanupAt(c)].Clients = @ \ {c}]
  /\ omu' = [omu EXCEPT !.writers = @ \ {CleanupAt(c)}]
  /\ odc' = IF lqs[CleanupAt(c)].Clients \ {c} = {}
              THEN [odc EXCEPT ![c].pc = "unregister"]
              ELSE [odc EXCEPT ![c] = [pc |-> "cleanup", i |-> @.i + 1]]
  /\ UNCHANGED << data, activeQueries, connOpen, frames, nReq, walPc, pending, changes,
                  missed, tasks, opc >>
  /\ UNCHANGED << refreshVars, lockVars, handleVars, serVars, rewriteVars, provVars,
                  raceVars >>

\* if empty { h.Registry.Unregister(q.ID) }
CleanupUnregister(c) ==
  /\ odc[c].pc = "unregister"
  /\ omu.reg = NoThread
  /\ data' = Unregister(data, CleanupAt(c))
  /\ odc' = [odc EXCEPT ![c] = [pc |-> "cleanup", i |-> @.i + 1]]
  /\ UNCHANGED << lqs, activeQueries, connOpen, frames, nReq, walPc, pending, changes,
                  missed, tasks, opc, omu >>
  /\ UNCHANGED << refreshVars, lockVars, handleVars, serVars, rewriteVars, provVars,
                  raceVars >>

\* CleanupOrphans: r.mu.Lock() returns; the loop ranges over r.data.
SweepLock ==
  /\ opc.pc \in {"idle", "returned"}
  /\ opc.runs < MaxSweeps
  /\ omu.reg = NoThread
  /\ omu' = [omu EXCEPT !.reg = "CleanupOrphans"]
  /\ opc' = [pc |-> "sweep", todo |-> data, cur |-> 0, noClients |-> FALSE, count |-> 0,
             seen |-> {}, removed |-> {}, runs |-> opc.runs + 1]
  /\ UNCHANGED << sysVars, odc >>
  /\ UNCHANGED << refreshVars, lockVars, handleVars, serVars, rewriteVars, provVars,
                  raceVars >>

\* The next record of the range, in any order: q.Mu.RLock() returns when no
\* cleanup holds the record's lock.
SweepRLock(id) ==
  /\ opc.pc = "sweep"
  /\ id \in opc.todo
  /\ id \notin omu.writers
  /\ omu' = [omu EXCEPT !.readers = @ \cup {id}]
  /\ opc' = [opc EXCEPT !.pc = "rlocked", !.cur = id]
  /\ UNCHANGED << sysVars, odc >>
  /\ UNCHANGED << refreshVars, lockVars, handleVars, serVars, rewriteVars, provVars,
                  raceVars >>

\* noClients := len(q.Clients) == 0; q.Mu.RUnlock()
SweepInspect ==
  /\ opc.pc = "rlocked"
  /\ omu' = [omu EXCEPT !.readers = @ \ {opc.cur}]
  /\ opc' = [opc EXCEPT !.pc = "inspected",
                        !.noClients = noClients(lqs[opc.cur]),
                        !.seen = @ \cup {<< opc.cur, noClients(lqs[opc.cur]) >>}]
  /\ UNCHANGED << sysVars, odc >>
  /\ UNCHANGED << refreshVars, lockVars, handleVars, serVars, rewriteVars, provVars,
                  raceVars >>

\* if noClients { delete(r.data, id); count++ }
SweepDelete ==
  /\ opc.pc = "inspected"
  /\ data' = IF opc.noClients THEN data \ {opc.cur} ELSE data
  /\ opc' = [opc EXCEPT !.pc = "sweep",
                        !.todo = @ \ {opc.cur},
                        !.count = IF opc.noClients THEN @ + 1 ELSE @,
                        !.removed = IF opc.noClients THEN @ \cup {opc.cur} ELSE @]
  /\ UNCHANGED << lqs, activeQueries, connOpen, frames, nReq, walPc, pending, changes,
                  missed, tasks, odc, omu >>
  /\ UNCHANGED << refreshVars, lockVars, handleVars, serVars, rewriteVars, provVars,
                  raceVars >>

\* The range is over: return count, and the deferred r.mu.Unlock().
SweepReturn ==
  /\ opc.pc = "sweep"
  /\ opc.todo = {}
  /\ omu' = [omu EXCEPT !.reg = NoThread]
  /\ opc' = [opc EXCEPT !.pc = "returned"]
  /\ UNCHANGED << sysVars, odc >>
  /\ UNCHANGED << refreshVars, lockVars, handleVars, serVars, rewriteVars, provVars,
                  raceVars >>

OrphanNext ==
  \/ \E c \in Conns : OrphanSubscribe(c)
  \/ \E c \in Conns : OrphanUnsubscribe(c)
  \/ \E c \in Conns : ReadFails(c)
  \/ \E c \in Conns : CleanupLock(c)
  \/ \E c \in Conns : CleanupDelete(c)
  \/ \E c \in Conns : CleanupUnregister(c)
  \/ SweepLock
  \/ \E id \in opc.todo : SweepRLock(id)
  \/ SweepInspect
  \/ SweepDelete
  \/ SweepReturn

OrphanSpec == Init /\ [][OrphanNext]_vars

(***************************************************************************)
(* Properties                                                              *)
(***************************************************************************)

\* schema.table of the k-th change fanned out.
ChangedTable(k) == changes[k].change.Schema \o << "." >> \o changes[k].change.Table

\* The live query id references the table of change k in its Tables.
References(id, k) == \E j \in 1..Len(lqs[id].Tables) : lqs[id].Tables[j] = ChangedTable(k)

\* The tasks started for the pair (change k, live query id).
TasksFor(k, id) == {t \in 1..Len(tasks) : tasks[t].lq = id /\ tasks[t].ch = k}

\* C1: for every change fanned out and every live query of the registry
\* whose Tables lack the change's schema.table, no PartialRefresh task is
\* started for that pair and no connection holds a frame of such a task.
C1_NoRefreshForUnreferencedTable ==
  \A k \in 1..Len(changes) : \A id \in changes[k].reg :
    ~References(id, k) =>
      /\ TasksFor(k, id) = {}
      /\ \A c \in Conns : \A i \in 1..Len(frames[c]) :
           ~(/\ frames[c][i].lq = id
             /\ frames[c][i].task \in 1..Len(tasks)
             /\ tasks[frames[c][i].task].ch = k)

\* A change reached a registry holding a live query on another table, while
\* a live query on the changed table was refreshed and sent its update.
C1_Witness ==
  \E k \in 1..Len(changes) : \E id \in changes[k].reg :
    /\ Len(lqs[id].Tables) > 0
    /\ ~References(id, k)
    /\ \E t \in 1..Len(tasks) :
         tasks[t].ch = k /\ tasks[t].pc = "done" /\ tasks[t].sent = << "update" >>

\* The key record OnMessage reads for a change.
KeysOf(ch) == IF ch.Kind = "insert" THEN ch.NewKeys ELSE ch.OldKeys

\* m is {schema.table -> PK-name -> value} of change k: one table, every
\* key name mapped to the value at its position, nil when there is none.
IsKeyMapOf(m, k) ==
  /\ DOMAIN m = {ChangedTable(k)}
  /\ DOMAIN m[ChangedTable(k)] = Range(KeysOf(changes[k].change).KeyNames)
  /\ \A j \in 1..Len(KeysOf(changes[k].change).KeyNames) :
       (\A j2 \in (j + 1)..Len(KeysOf(changes[k].change).KeyNames) :
          KeysOf(changes[k].change).KeyNames[j2] # KeysOf(changes[k].change).KeyNames[j])
       => m[ChangedTable(k)][KeysOf(changes[k].change).KeyNames[j]] =
            IF j <= Len(KeysOf(changes[k].change).KeyValues)
            THEN KeysOf(changes[k].change).KeyValues[j] ELSE Nil

\* C2: for every change fanned out and every live query in the registry
\* during the iteration whose Tables contain the change's schema.table,
\* exactly one PartialRefresh task is started for the pair, with the map
\* {schema.table -> PK-name -> value} of that change; so n changes that
\* match a live query start n tasks for it.
C2_OneTaskPerMatchingPair ==
  \A k \in 1..Len(changes) : \A id \in changes[k].reg :
    References(id, k) =>
      /\ Cardinality(TasksFor(k, id)) = 1
      /\ \A t \in TasksFor(k, id) : IsKeyMapOf(tasks[t].affected, k)

\* Two live queries matched one change and each got its task, or one live
\* query matched two changes and got two tasks.
C2_Witness ==
  \/ \E k \in 1..Len(changes) : \E id1 \in changes[k].reg, id2 \in changes[k].reg :
       /\ id1 # id2
       /\ References(id1, k) /\ References(id2, k)
       /\ TasksFor(k, id1) # {} /\ TasksFor(k, id2) # {}
  \/ \E k1 \in 1..Len(changes), k2 \in 1..Len(changes) : \E id \in changes[k1].reg :
       /\ k1 # k2 /\ id \in changes[k2].reg
       /\ References(id, k1) /\ References(id, k2)
       /\ TasksFor(k1, id) # {} /\ TasksFor(k2, id) # {}

\* The frames of type ty that task t put on connection c.
FramesOf(c, t, ty) ==
  {i \in 1..Len(frames[c]) : frames[c][i].task = t /\ frames[c][i].type = ty}

\* C3 as stated: every PartialRefresh invocation broadcasts `update`
\* exactly once, for every live query and every affected-keys map.
C3_EveryInvocationBroadcastsUpdate ==
  \A t \in 1..Len(tasks) : tasks[t].pc = "done" => tasks[t].sent = << "update" >>

\* C3 amended: a PartialRefresh invocation broadcasts at most once; it
\* broadcasts `update` (once) exactly when its predicate is not empty and
\* the query and the serialization succeed, and no connection gets more
\* than one `update` frame of it.
C3_UpdateOnceWhenPredicateAndSuccess ==
  \A t \in 1..Len(tasks) : tasks[t].pc = "done" =>
    /\ Len(tasks[t].sent) <= 1
    /\ tasks[t].sent = << "update" >> <=> (Len(tasks[t].where) > 0 /\ tasks[t].outcome = "ok")
    /\ \A c \in Conns :
         Cardinality(FramesOf(c, t, "update")) <= (IF tasks[t].sent = << "update" >> THEN 1 ELSE 0)

\* A refresh with a predicate succeeded and its subscriber holds the update.
C3_Witness ==
  \E t \in 1..Len(tasks) :
    /\ tasks[t].pc = "done" /\ Len(tasks[t].where) > 0 /\ tasks[t].outcome = "ok"
    /\ \E c \in Conns : FramesOf(c, t, "update") # {}

\* The alias -> table bindings of every scope of a tree: for each RangeVar
\* the alias under which injectPKsInSelect records its injected columns.
RECURSIVE AliasBindings(_)
RECURSIVE AliasBindingsOfList(_)
AliasBindingsOfList(nodes) ==
  IF Len(nodes) = 0 THEN {}
  ELSE AliasBindings(nodes[1]) \cup AliasBindingsOfList(Tail(nodes))
AliasBindings(node) ==
  IF node.kind = "RangeVar" THEN
    {[alias |-> IF node.aliasname # EmptyStr THEN node.aliasname ELSE node.relname,
      table |-> (IF node.schemaname # EmptyStr THEN node.schemaname ELSE s_public)
                  \o Dot \o node.relname]}
  ELSE IF node.kind = "A_Expr" THEN AliasBindings(node.lexpr) \cup AliasBindings(node.rexpr)
  ELSE IF node.kind = "FuncCall" THEN AliasBindingsOfList(node.args)
  ELSE IF node.kind = "SubLink" THEN AliasBindings(node.subselect)
  ELSE IF node.kind = "ResTarget" THEN AliasBindings(node.val)
  ELSE IF node.kind = "JoinExpr" THEN AliasBindings(node.larg) \cup AliasBindings(node.rarg)
  ELSE IF node.kind = "RangeSubselect" THEN AliasBindings(node.subquery)
  ELSE IF node.kind = "SelectStmt" THEN
    AliasBindingsOfList([i \in 1..Len(node.withClause) |-> node.withClause[i].ctequery])
      \cup AliasBindingsOfList(node.targetList) \cup AliasBindingsOfList(node.fromClause)
      \cup AliasBindings(node.whereClause) \cup AliasBindings(node.havingClause)
      \cup AliasBindingsOfList(node.sortClause)
  ELSE {}

\* C4 as stated: every column named in the predicate buildPKPredicate
\* produces for a live query built by registerLiveQuery is a column of the
\* top-level projection of its rewritten SQL, also with a CTE, a subselect
\* in FROM or a sublink.
C4_PredicateColumnsAreProjected ==
  rpc = "built" =>
    \A i \in 1..Len(rwhere) : rwhere[i].col \in ProjectionNames(rlq.Rewritten)

\* A predicate was built for a query with a subselect in FROM.
C4_Witness ==
  rpc = "built" /\ rq.sql = Q_sub /\ Len(rwhere) > 0

\* C5 as stated: for a change on table T the predicate constrains only
\* injected PK columns of aliases bound to T, not those of another base
\* table of the query whose names end in the same key name.
C5_PredicateOnlyOnChangedTable ==
  rpc = "built" =>
    \A i \in 1..Len(rwhere) :
      \E b \in AliasBindings(rlq.Rewritten.stmt) :
        /\ b.table = rq.change.Schema \o << "." >> \o rq.change.Table
        /\ b.alias \in DOMAIN rlq.PKCols
        /\ \E j \in 1..Len(rlq.PKCols[b.alias]) : rlq.PKCols[b.alias][j] = rwhere[i].col

\* A predicate was built for the join of actor and film on an actor change.
C5_Witness ==
  rpc = "built" /\ rq.sql = Q_join /\ rq.change.Table = s_actor /\ Len(rwhere) > 0

\* A task t takes its step from started to done with a failure.
FailsNow(t) ==
  /\ t \in 1..Len(tasks) /\ tasks[t].pc = "started"
  /\ tasks'[t].pc = "done" /\ tasks'[t].outcome \in {"query", "serialize"}

\* C6: when the query or the serialization of a PartialRefresh fails, one
\* `error` broadcast is made and no `update`: every open subscriber of the
\* live query gets exactly that one frame, nobody else gets a frame, and
\* the registry, the records and the change consumer are left as they are.
C6_FailureBroadcastsOneError ==
  /\ [](\A t \in 1..Len(tasks) :
          (tasks[t].pc = "done" /\ tasks[t].outcome \in {"query", "serialize"}) =>
            /\ tasks[t].sent = << "error" >>
            /\ \A c \in Conns : /\ FramesOf(c, t, "update") = {}
                                /\ Cardinality(FramesOf(c, t, "error")) <= 1)
  /\ [][\A t \in 1..Len(tasks) : FailsNow(t) =>
          /\ data' = data /\ lqs' = lqs /\ walPc' = walPc /\ pending' = pending
          /\ \A c \in Conns :
               frames'[c] = IF c \in lqs[tasks[t].lq].Clients /\ connOpen[c]
                            THEN Append(frames[c], Frame("error", tasks[t].lq, t))
                            ELSE frames[c]]_vars

\* A refresh failed and its subscriber holds the error frame.
C6_Witness ==
  \E t \in 1..Len(tasks) :
    /\ tasks[t].pc = "done" /\ tasks[t].outcome \in {"query", "serialize"}
    /\ \E c \in Conns : FramesOf(c, t, "error") # {}

\* The live queries a connection created: those it was told `subscribed` for.
CreatedBy(c) ==
  {frames[c][i].lq : i \in {j \in 1..Len(frames[c]) : frames[c][j].type = "subscribed"}}

UnsubscribedStep(c) ==
  /\ Len(frames'[c]) = Len(frames[c]) + 1
  /\ frames'[c][Len(frames'[c])].type = "unsubscribed"

DisconnectStep(c) == connOpen[c] /\ ~connOpen'[c]

\* C7: once a connection's unsubscribe frame is processed (it then has no
\* active query) and once its read loop has ended, none of the live queries
\* it created is in the registry; and these steps leave the live queries of
\* the other connections in the registry as they were.
C7_ConnectionQueriesLeaveRegistry ==
  /\ [](\A c \in Conns :
          (~connOpen[c] \/ Len(activeQueries[c]) = 0) => data \cap CreatedBy(c) = {})
  /\ [][\A c \in Conns : (UnsubscribedStep(c) \/ DisconnectStep(c)) =>
          \A d \in Conns \ {c} : data' \cap CreatedBy(d) = data \cap CreatedBy(d)]_vars

\* A connection unsubscribed its live query while another connection's live
\* query stays registered.
C7_Witness ==
  \E c \in Conns :
    /\ CreatedBy(c) # {}
    /\ \E i \in 1..Len(frames[c]) : frames[c][i].type = "unsubscribed"
    /\ \E d \in Conns \ {c} : data \cap CreatedBy(d) # {}

\* The goroutines inside a Registry operation.
InRegistry(th) ==
  /\ ~LockDone(th)
  /\ \/ StepOf(th).mu = RegistryMu
     \/ th \in {"SnapshotView", "CleanupOrphans"}

\* C8 as stated: while a Send inside Broadcast does not return, no Registry
\* operation (Register, Unregister, ForEach, SnapshotView, CleanupOrphans)
\* waits, directly or through other goroutines, for the goroutine in Send.
C8_SendDoesNotBlockRegistry ==
  \A th \in Threads :
    InRegistry(th) =>
      \A b \in WaitsFor(Blockers(th), Cardinality(Threads)) : ~AtOp(b, "Send")

\* A Registry operation waits for a lock while Broadcast is in Send.
C8_Witness ==
  /\ AtOp("Broadcast", "Send")
  /\ \E th \in Threads : InRegistry(th) /\ Blockers(th) # {}

\* C9 as stated: every change the sidecar emits after the stream failed or
\* ended is passed to Consumer.OnMessage (none is left unread).
C9_LaterChangesReachOnMessage == missed = 0

\* The stream ended and the sidecar emitted a change.
C9_Witness == walPc # "reading" /\ missed > 0

\* C10 as stated: a subscribe whose rewrite or provenance resolution fails
\* registers no live query and is answered by no `subscribed` frame.
C10_FailedSubscribeRegistersNothing ==
  \A id \in 1..Len(lqs) :
    /\ ~RewriteSelectInjectPKs(lqs[id].SQL).err
    /\ ~ResolveProvenance(RewriteSelectInjectPKs(lqs[id].SQL).sql).err

\* A subscribe with SQL whose column is ambiguous was handled.
C10_Witness ==
  \E c \in Conns : \E i \in 1..Len(frames[c]) :
    frames[c][i].type = "subscribed" /\ lqs[frames[c][i].lq].SQL = Q_ambig

\* C11: a query that references no base table (SELECT 1: nothing injected,
\* empty Tables) is not registrable: no live query built from it is ever in
\* the registry.
C11_NoTableQueryNotRegistered ==
  \A id \in data : ~(lqs[id].SQL = Q_const /\ Len(lqs[id].Tables) = 0)

\* A subscribe frame carrying SELECT 1 was handled: the rewrite injected
\* nothing, the Tables derived are empty, and the connection was answered.
C11_Witness ==
  \E c \in Conns : \E i \in 1..Len(frames[c]) :
    /\ frames[c][i].type = "subscribed"
    /\ lqs[frames[c][i].lq].SQL = Q_const
    /\ lqs[frames[c][i].lq].PKCols = EmptyMap
    /\ lqs[frames[c][i].lq].Tables = << >>

\* The characters of a string.
HasAny(s, cs) == \E i \in 1..Len(s) : s[i] \in cs
Trimmed(s) == Len(s) = 0 \/ (s[1] # " " /\ s[Len(s)] # " ")

\* The inputs of EncodeHandle the round trip is promised for.
WellFormedHandle(in) ==
  /\ \A s \in {in.schema, in.table} \cup Range(in.cols)
               \cup {Sprint(in.vals[i]) : i \in 1..Len(in.vals)} :
       ~HasAny(s, {"|", "=", ","}) /\ Trimmed(s)
  /\ ~HasAny(in.schema, {"."})
  /\ \A i, j \in 1..Len(in.cols) : in.cols[i] = in.cols[j] => i = j

\* C12: for well-formed (schema, table, cols, vals), decoding the encoded
\* handle returns no error, the same schema and table, and exactly the map
\* cols[i] -> string rendering of vals[i].
C12_HandleRoundTrip ==
  (hpc = "done" /\ hin.kind = "encode" /\ WellFormedHandle(hin)) =>
    /\ hres.err = ""
    /\ hres.schema = hin.schema
    /\ hres.table = hin.table
    /\ DOMAIN hres.pk = Range(hin.cols)
    /\ \A i \in 1..Len(hin.cols) : hres.pk[hin.cols[i]] = Sprint(hin.vals[i])

\* A well-formed handle of two PK columns, one value an int and one nil or
\* a string with an inner space, made the round trip.
C12_Witness ==
  /\ hpc = "done"
  /\ hin.kind = "encode"
  /\ WellFormedHandle(hin)
  /\ Len(hin.cols) = 2
  /\ hin.vals[1].kind = "int"
  /\ hin.vals[2].kind # "int"
  /\ DOMAIN hres.pk = {<< "a" >>, << "b" >>}

\* A payload of the form schema.table|col=val[,col=val]*.
IsHandleForm(raw) ==
  /\ Len(SplitN2(raw, "|")) = 2
  /\ HasAny(SplitN2(raw, "|")[1], {"."})
  /\ \A i \in 1..Len(Split(SplitN2(raw, "|")[2], ",")) :
       HasAny(Split(SplitN2(raw, "|")[2], ",")[i], {"="})

\* The handle received is malformed.
Malformed(in) == in.kind = "raw" /\ (~in.b64 \/ ~IsHandleForm(in.payload))

\* C13: DecodeHandle returns an error for every malformed handle (an item
\* of the key part without "=" included), and handleEdit then issues no
\* UPDATE.
C13_MalformedHandleRejected ==
  (hpc = "done" /\ Malformed(hin)) => (hres.err # "" /\ ~hupd.update)

\* handleEdit handled a handle whose key part has an item without "=".
C13_Witness ==
  /\ hpc = "done"
  /\ Malformed(hin)
  /\ hin.b64
  /\ Len(SplitN2(hin.payload, "|")) = 2
  /\ \E i \in 1..Len(Split(SplitN2(hin.payload, "|")[2], ",")) :
       /\ Len(Split(SplitN2(hin.payload, "|")[2], ",")[i]) > 0
       /\ ~HasAny(Split(SplitN2(hin.payload, "|")[2], ",")[i], {"="})

\* The target of the original select whose result column is labelled col.
TargetOf(sql, col) ==
  sql.stmt.targetList[CHOOSE i \in 1..Len(sql.stmt.targetList) : ProjectionCols(sql)[i] = col]

\* The FROM items of the select a column reference may denote: the alias
\* named, or for a bare column the tables that have it.
OwnerBindings(sql, ref) ==
  {b \in AliasBindingsOfList(sql.stmt.fromClause) :
     IF Len(ref.fields) = 2 THEN b.alias = ref.fields[1]
     ELSE ref.fields[1] \in Range(CatColumns(b.table).v)}

\* The PK of the row of binding b that the result row was built from: PK
\* column -> rendering of the value of the column injected for (b, column).
RowKey(b, r) ==
  [k \in Range(PrimaryKeys(b.table).v) |->
     Sprint(r.values[indexOf(r.cols, r.adds[b.alias][indexOf(PrimaryKeys(b.table).v, k)])])]

\* The handle h names the row of binding b.
HandleNames(h, b, r) ==
  /\ b.alias \in DOMAIN r.adds
  /\ DecodeHandle(h).err = ""
  /\ DecodeHandle(h).schema \o Dot \o DecodeHandle(h).table = b.table
  /\ DecodeHandle(h).pk = RowKey(b, r)

\* C14: every cell SerializeEditableRows emits has an empty handle or a
\* handle that decodes to the base table owning the cell's source column,
\* with exactly that table's PK columns and the PK values of the row the
\* value was read from; also for schema-qualified tables and for one table
\* under two aliases.
C14_HandleNamesOwnRow ==
  (spc = "done" /\ sres.status = 200) =>
    \A col \in DOMAIN sres.row :
      \/ sres.row[col].EditHandle = << >>
      \/ TargetOf(sin, col).val.kind # "ColumnRef"
      \/ \E b \in OwnerBindings(sin, TargetOf(sin, col).val) :
           HandleNames(sres.row[col].EditHandle, b, sres)

\* A row of the self-join of actor was serialized whose two actors differ,
\* and the cell of the first got a handle.
C14_Witness ==
  /\ spc = "done"
  /\ sres.status = 200
  /\ sin = S_twice
  /\ sres.values[3] # sres.values[4]
  /\ sres.row[s_name].EditHandle # << >>

\* The sources the original provenance gives the result column col: those
\* of the key equal to the label, else those of the one key ending in
\* ".<col>".
SourcesOf(col, prov) ==
  IF col \in DOMAIN prov /\ Len(prov[col]) > 0 THEN Range(prov[col])
  ELSE IF Cardinality({k \in DOMAIN prov : HasSuffix(k, Dot \o col) /\ Len(prov[k]) > 0}) = 1
    THEN UNION {Range(prov[k]) : k \in {x \in DOMAIN prov : HasSuffix(x, Dot \o col)}}
  ELSE {}

\* The table of a source "table.column" (the table may be schema-qualified).
SourceTable(src) == SubSeq(src, 1, LastIndexByte(src, ".") - 1)

\* The table has a PK and each of its PK columns has an injected _pk_*
\* column among the result columns that the rewritten provenance maps to it.
CompleteBucket(table, r) ==
  /\ PrimaryKeys(table).ok
  /\ Len(PrimaryKeys(table).v) > 0
  /\ \A k \in Range(PrimaryKeys(table).v) :
       \E c \in Range(r.cols) :
         /\ HasPrefix(c, s_pk)
         /\ c \in DOMAIN r.provRewritten
         /\ Len(r.provRewritten[c]) > 0
         /\ r.provRewritten[c][1] = table \o Dot \o k

\* C15: in every row, a non-injected column whose original provenance (exact
\* label, else unique ".<col>" suffix) is a single base-table source gets a
\* non-empty handle when that table (one with a PK) has a complete PK bucket
\* in the row.
C15_SingleSourceCellHasHandle ==
  (spc = "done" /\ sres.status = 200) =>
    \A i \in 1..Len(sres.cols) :
      (/\ ~HasPrefix(sres.cols[i], s_pk)
       /\ Cardinality(SourcesOf(sres.cols[i], sres.provOrig)) = 1
       /\ \A src \in SourcesOf(sres.cols[i], sres.provOrig) :
            CompleteBucket(SourceTable(src), sres))
      => sres.row[sres.cols[i]].EditHandle # << >>

\* A row of the join of actor and film was serialized: name and title are
\* found by suffix (keys a.name, f.title) and both tables have their PK
\* column injected.
C15_Witness ==
  /\ spc = "done"
  /\ sres.status = 200
  /\ sin = Q_join
  /\ s_name \notin DOMAIN sres.provOrig
  /\ CompleteBucket(s_actor, sres)
  /\ CompleteBucket(s_film, sres)
  /\ sres.row[s_title].EditHandle # << >>

\* The projection item is an aggregate or an expression over more than one
\* base column.
IsComputedItem(t) ==
  \/ t.val.kind = "FuncCall"
  \/ t.val.kind = "A_Expr" /\ Cardinality(Range(ColumnRefsIn(t.val))) > 1

\* C16: the cell of a projection item that is an aggregate or an expression
\* over more than one base column has an empty edit handle, with or without
\* an output alias; so has every cell whose original provenance lists more
\* than one source.
C16_ComputedCellHasNoHandle ==
  (spc = "done" /\ sres.status = 200) =>
    \A i \in 1..Len(sin.stmt.targetList) :
      (\/ IsComputedItem(sin.stmt.targetList[i])
       \/ Cardinality(SourcesOf(sres.cols[i], sres.provOrig)) > 1)
      => sres.row[sres.cols[i]].EditHandle = << >>

\* A row of an aliased concatenation of two columns of actor was
\* serialized; the original provenance of the cell lists both columns.
C16_Witness ==
  /\ spc = "done"
  /\ sres.status = 200
  /\ sin = S_concat_as
  /\ IsComputedItem(sin.stmt.targetList[1])
  /\ sres.cols[1] = s_full
  /\ Len(sres.provOrig[s_full]) = 2

\* Every select of a tree, the outer one first: the scopes the rewrite
\* visits.
RECURSIVE SelectsIn(_)
RECURSIVE SelectsInList(_)
SelectsInList(nodes) ==
  IF Len(nodes) = 0 THEN << >>
  ELSE SelectsIn(nodes[1]) \o SelectsInList(Tail(nodes))
SelectsIn(node) ==
  IF node.kind = "SelectStmt" THEN
    << node >>
      \o SelectsInList([i \in 1..Len(node.withClause) |-> node.withClause[i].ctequery])
      \o SelectsInList(node.targetList) \o SelectsInList(node.fromClause)
      \o SelectsIn(node.whereClause) \o SelectsIn(node.havingClause)
      \o SelectsInList(node.sortClause)
  ELSE IF node.kind = "A_Expr" THEN SelectsIn(node.lexpr) \o SelectsIn(node.rexpr)
  ELSE IF node.kind = "FuncCall" THEN SelectsInList(node.args)
  ELSE IF node.kind = "SubLink" THEN SelectsIn(node.subselect)
  ELSE IF node.kind = "ResTarget" THEN SelectsIn(node.val)
  ELSE IF node.kind = "JoinExpr" THEN SelectsIn(node.larg) \o SelectsIn(node.rarg)
  ELSE IF node.kind = "RangeSubselect" THEN SelectsIn(node.subquery)
  ELSE << >>

Scopes(sql) == IF sql.parse = "select" THEN SelectsIn(sql.stmt) ELSE << >>

\* The names of the targets of a select, in order, and those of them that
\* are _pk_* names.
NamesOf(sel) == [i \in 1..Len(sel.targetList) |-> sel.targetList[i].name]
PKNamesOf(sel) == {n \in Range(NamesOf(sel)) : HasPrefix(n, s_pk)}

\* C17: the rewrite applied to its own output leaves every projection list
\* as the first application made it: the same _pk_* columns and no new
\* column, with or without GROUP BY, CTEs or subselects.
C17_RewriteIdempotent ==
  wpc = "twice" =>
    /\ Len(Scopes(wres.second.sql)) = Len(Scopes(wres.first.sql))
    /\ \A i \in 1..Len(Scopes(wres.first.sql)) :
         /\ PKNamesOf(Scopes(wres.second.sql)[i]) = PKNamesOf(Scopes(wres.first.sql)[i])
         /\ NamesOf(Scopes(wres.second.sql)[i]) = NamesOf(Scopes(wres.first.sql)[i])

\* A select with a CTE and a GROUP BY list over a join was rewritten twice,
\* and the first application injected columns in both scopes.
C17_Witness ==
  /\ wpc = "twice"
  /\ win.parse = "select"
  /\ Len(win.stmt.withClause) > 0
  /\ Len(win.stmt.groupClause) > 0
  /\ Cardinality(PKNamesOf(Scopes(wres.first.sql)[1])) = 2
  /\ PKNamesOf(Scopes(wres.first.sql)[2]) # {}

\* The base tables a select's own FROM clause binds: alias -> table.
RECURSIVE FromBindings(_)
FromBindings(node) ==
  IF node.kind = "RangeVar" THEN AliasBindings(node)
  ELSE IF node.kind = "JoinExpr" THEN FromBindings(node.larg) \cup FromBindings(node.rarg)
  ELSE {}
ScopeBindings(sel) == UNION {FromBindings(sel.fromClause[i]) : i \in 1..Len(sel.fromClause)}

\* The bindings of a scope whose table has a PK in the catalog.
KeyedBindings(sel) ==
  {b \in ScopeBindings(sel) : PrimaryKeys(b.table).ok /\ Len(PrimaryKeys(b.table).v) > 0}

\* The name of the column injected for PK column k of binding b.
InjectedName(b, k) == s_pk \o ReplaceAll(b.alias, ".", "_") \o Underscore \o k

\* The column reference denotes column k of binding b in the scope sel.
RefersTo(val, b, k, sel) ==
  /\ val.kind = "ColumnRef"
  /\ \/ val.fields = << b.alias, k >>
     \/ val.fields = << k >> /\ Cardinality(ScopeBindings(sel)) = 1

\* C18: after the rewrite, in every scope and for every base-table alias
\* whose table has a PK, the projection list has exactly one target named
\* _pk_<displayAlias>_<pk> per PK column, and it refers to that alias's PK
\* column; also when two alias/PK pairs give the same name.
C18_OneTargetPerAliasKey ==
  wpc = "once" =>
    \A i \in 1..Len(Scopes(wres.first.sql)) :
      \A b \in KeyedBindings(Scopes(wres.first.sql)[i]) :
        \A k \in Range(PrimaryKeys(b.table).v) :
          /\ Cardinality({j \in 1..Len(Scopes(wres.first.sql)[i].targetList) :
                            Scopes(wres.first.sql)[i].targetList[j].name = InjectedName(b, k)}) = 1
          /\ \A j \in 1..Len(Scopes(wres.first.sql)[i].targetList) :
               Scopes(wres.first.sql)[i].targetList[j].name = InjectedName(b, k)
                 => RefersTo(Scopes(wres.first.sql)[i].targetList[j].val, b, k,
                             Scopes(wres.first.sql)[i])

\* The table role (PK c, b_c) was rewritten under the aliases a_b and a:
\* (a_b, c) and (a, b_c) both give the name _pk_a_b_c.
C18_Witness ==
  /\ wpc = "once"
  /\ win.parse = "select"
  /\ [alias |-> s_a_b, table |-> Qualified(s_public, s_role)] \in KeyedBindings(win.stmt)
  /\ [alias |-> s_a, table |-> Qualified(s_public, s_role)] \in KeyedBindings(win.stmt)
  /\ InjectedName([alias |-> s_a_b], s_c) = InjectedName([alias |-> s_a], s_b_c)
  /\ InjectedName([alias |-> s_a], s_b_c) \in PKNamesOf(Scopes(wres.first.sql)[1])

\* The targets the rewrite appended to the i-th scope.
InjectedTail(i) ==
  SubSeq(Scopes(wres.first.sql)[i].targetList,
         Len(Scopes(win)[i].targetList) + 1,
         Len(Scopes(wres.first.sql)[i].targetList))

\* The binding of the scope an appended target reads, and the position of
\* its column in the catalog's PK of that binding's table.
OwnerOf(t, sel) ==
  CHOOSE b \in ScopeBindings(sel) : Len(t.val.fields) = 2 => b.alias = t.val.fields[1]
PKIndex(t, sel) ==
  CHOOSE k \in 1..Len(PrimaryKeys(OwnerOf(t, sel).table).v) :
    PrimaryKeys(OwnerOf(t, sel).table).v[k] = t.val.fields[Len(t.val.fields)]

\* Name n comes before name m in the list xs.
Before(xs, n, m) == \E p, q \in 1..Len(xs) : p < q /\ xs[p] = n /\ xs[q] = m

\* C19: in every scope the user's projection items keep their order and
\* come first; the injected columns follow, by alias in sorted order and
\* within an alias in catalog PK order; and the returned alias -> names map
\* lists an alias's names in that order.
C19_InjectedOrder ==
  wpc = "once" =>
    \A i \in 1..Len(Scopes(win)) :
      /\ Len(Scopes(wres.first.sql)[i].targetList) >= Len(Scopes(win)[i].targetList)
      /\ \A j \in 1..Len(Scopes(win)[i].targetList) :
           /\ Scopes(wres.first.sql)[i].targetList[j].name = Scopes(win)[i].targetList[j].name
           /\ Scopes(wres.first.sql)[i].targetList[j].val.kind
                = Scopes(win)[i].targetList[j].val.kind
           /\ Scopes(win)[i].targetList[j].val.kind = "ColumnRef"
                => Scopes(wres.first.sql)[i].targetList[j] = Scopes(win)[i].targetList[j]
      /\ \A j \in 1..Len(InjectedTail(i)) :
           /\ HasPrefix(InjectedTail(i)[j].name, s_pk)
           /\ InjectedTail(i)[j].val.kind = "ColumnRef"
           /\ InjectedTail(i)[j].name
                \in Range(MapGet(wres.first.adds,
                                 ReplaceAll(OwnerOf(InjectedTail(i)[j], Scopes(win)[i]).alias,
                                            ".", "_"),
                                 << >>))
      /\ \A j, l \in 1..Len(InjectedTail(i)) :
           j < l =>
             \/ StrLess(OwnerOf(InjectedTail(i)[j], Scopes(win)[i]).alias,
                        OwnerOf(InjectedTail(i)[l], Scopes(win)[i]).alias)
             \/ /\ OwnerOf(InjectedTail(i)[j], Scopes(win)[i])
                     = OwnerOf(InjectedTail(i)[l], Scopes(win)[i])
                /\ PKIndex(InjectedTail(i)[j], Scopes(win)[i])
                     < PKIndex(InjectedTail(i)[l], Scopes(win)[i])
                /\ Before(wres.first.adds[ReplaceAll(OwnerOf(InjectedTail(i)[j],
                                                             Scopes(win)[i]).alias, ".", "_")],
                          InjectedTail(i)[j].name, InjectedTail(i)[l].name)

\* A join written film f, actor a with two user columns was rewritten: the
\* columns of a come before those of f; and role under the alias t got its
\* two PK columns in the catalog's order c, b_c.
C19_Witness ==
  /\ wpc = "once"
  /\ win.parse = "select"
  /\ Len(win.stmt.targetList) = 2
  /\ win.stmt.fromClause = << JoinExpr(TableAs(s_film, s_f), TableAs(s_actor, s_a)) >>
  /\ Len(InjectedTail(1)) = 2
  /\ InjectedTail(1)[1].val.fields = << s_a, s_id >>
  /\ InjectedTail(1)[2].val.fields = << s_f, s_id >>

\* C20: a select with a GROUP BY list gets appended to it exactly the
\* column references the rewrite projects as injected columns of that
\* scope, unaliased; a select without a GROUP BY list gets none.
C20_GroupByGetsInjectedRefs ==
  wpc = "once" =>
    \A i \in 1..Len(Scopes(win)) :
      IF Len(Scopes(win)[i].groupClause) = 0
      THEN Scopes(wres.first.sql)[i].groupClause = << >>
      ELSE Scopes(wres.first.sql)[i].groupClause
             = Scopes(win)[i].groupClause
                 \o [j \in 1..Len(InjectedTail(i)) |-> InjectedTail(i)[j].val]

\* A grouped select over role under the aliases a_b and a was rewritten.
C20_Witness ==
  /\ wpc = "once"
  /\ win.parse = "select"
  /\ Len(win.stmt.groupClause) > 0
  /\ Cardinality(KeyedBindings(win.stmt)) = 2
  /\ Len(InjectedTail(1)) > 0
  /\ Len(Scopes(wres.first.sql)[1].groupClause) > Len(win.stmt.groupClause)

\* The base tables a FROM clause puts in scope, each under the name the
\* resolver gives it: the relation as written, schema included when given.
RECURSIVE WrittenTables(_)
WrittenTables(node) ==
  IF node.kind = "RangeVar" THEN
    {[alias |-> IF node.aliasname # EmptyStr THEN node.aliasname ELSE node.relname,
      rel |-> IF node.schemaname # EmptyStr
              THEN node.schemaname \o Dot \o node.relname ELSE node.relname]}
  ELSE IF node.kind = "JoinExpr" THEN WrittenTables(node.larg) \cup WrittenTables(node.rarg)
  ELSE {}
TablesInScope(sel) == UNION {WrittenTables(sel.fromClause[i]) : i \in 1..Len(sel.fromClause)}

\* The tables in scope whose catalog columns contain the column.
Holders(sel, col) ==
  {b \in TablesInScope(sel) : CatColumns(b.rel).ok /\ col \in Range(CatColumns(b.rel).v)}

\* The column selected and the label of its output.
SelectedColumn(sql) == sql.stmt.targetList[1].val.fields[1]
OutputLabel(sql) ==
  IF sql.stmt.targetList[1].name # EmptyStr THEN sql.stmt.targetList[1].name
  ELSE SelectedColumn(sql)

\* C21: for an unqualified column in a scope with more than one base table,
\* ResolveProvenance returns table.col when exactly one table in scope has
\* the column in the catalog, and fails with "ambiguous column <name>" and
\* no provenance map when more than one has it.
C21_UnqualifiedColumnResolution ==
  (ppc = "done" /\ pin.parse = "select" /\ Cardinality(TablesInScope(pin.stmt)) > 1) =>
    /\ Cardinality(Holders(pin.stmt, SelectedColumn(pin))) = 1 =>
         /\ ~pres.err
         /\ \A b \in Holders(pin.stmt, SelectedColumn(pin)) :
              pres.out = MapPut(EmptyMap, OutputLabel(pin),
                                << b.rel \o Dot \o SelectedColumn(pin) >>)
    /\ Cardinality(Holders(pin.stmt, SelectedColumn(pin))) > 1 =>
         /\ pres.err
         /\ pres.out = EmptyMap
         /\ pres.msg = s_ambiguous \o SelectedColumn(pin)

\* The column name, which actor and film both have, was selected from
\* FROM actor, film and refused.
C21_Witness ==
  /\ ppc = "done"
  /\ pin.parse = "select"
  /\ pin.stmt.fromClause = << Table(s_actor), Table(s_film) >>
  /\ SelectedColumn(pin) = s_name
  /\ Cardinality(Holders(pin.stmt, s_name)) = 2
  /\ pres.err
  /\ pres.msg = s_ambiguous \o s_name

\* C22: the PK map passed to the partial refresh of a change is read from
\* newkeys when the kind is insert and from oldkeys otherwise; it maps
\* keynames[i] to keyvalues[i], and a key name without a value to null.
C22_KeyMapFromChange ==
  rpc = "built" =>
    /\ DOMAIN raff = {rq.change.Schema \o << "." >> \o rq.change.Table}
    /\ \A fq \in DOMAIN raff :
         /\ DOMAIN raff[fq] = Range(KeysOf(rq.change).KeyNames)
         /\ \A j \in 1..Len(KeysOf(rq.change).KeyNames) :
              raff[fq][KeysOf(rq.change).KeyNames[j]] =
                IF j <= Len(KeysOf(rq.change).KeyValues)
                THEN KeysOf(rq.change).KeyValues[j] ELSE Nil

\* The map was built for an insert whose old key is 7 and whose new key
\* is 5.
C22_Witness ==
  /\ rpc = "built"
  /\ rq.change.Kind = "insert"
  /\ rq.change.OldKeys.KeyValues = << v7 >>
  /\ rq.change.NewKeys.KeyValues = << v5 >>
  /\ raff[Qualified(s_public, s_film)][s_id] = v5

\* The rows of the wrapped query, by the values of its injected columns.
InjectedRows ==
  [UNION {Range(rlq.PKCols[a]) : a \in DOMAIN rlq.PKCols} -> {v5, v7}]

\* C24: for a change on a table with a composite primary key, every row
\* the predicate of buildPKPredicate selects agrees with the changed row
\* on all PK columns of the table.
C24_CompositeKeyMatchesAllColumns ==
  (rpc = "built" /\ Len(PrimaryKeys(FQ(rq.change)).v) > 1 /\ Len(rwhere) > 0) =>
    \A row \in InjectedRows :
      WhereSelects(rwhere, row) =>
        \E b \in AliasBindings(rq.sql.stmt) :
          /\ b.table = FQ(rq.change)
          /\ \A k \in Range(PrimaryKeys(b.table).v) :
               /\ InjectedName(b, k) \in DOMAIN row
               /\ row[InjectedName(b, k)] = raff[FQ(rq.change)][k]

\* The predicate was built for an update of the row (c, b_c) = (5, 7) of
\* role, for a query over role.
C24_Witness ==
  /\ rpc = "built"
  /\ rq.sql = Q_role
  /\ rq.change.Table = s_role
  /\ rq.change.OldKeys.KeyValues = << v5, v7 >>
  /\ Len(rwhere) >= 2

\* The base tables a select reads, as schema.table: every relation named
\* in a FROM clause of the tree that is not one of its CTEs.
TablesRead(sql) ==
  {b.table : b \in {x \in AliasBindings(sql.stmt) :
                      \A i \in 1..Len(sql.stmt.withClause) :
                        x.table # Qualified(s_public, sql.stmt.withClause[i].ctename)}}

\* C26: the Tables of a registered live query contain schema.table of every
\* base table the query reads: FROM items, joined tables, tables of CTEs,
\* subselects and sublinks, tables of another schema, and tables without PK
\* of which nothing is projected.
C26_TablesCoverEveryTableRead ==
  (rpc \in {"registered", "skipped", "built"} /\ rq.sql.parse = "select") =>
    \A t \in TablesRead(rq.sql) : contains(rlq.Tables, t)

\* A change of note was not matched by the live query that joins note
\* without projecting any of its columns.
C26_Witness ==
  /\ rpc = "skipped"
  /\ rq.sql = Q_unprojected
  /\ FQ(rq.change) = Qualified(s_public, s_note)
  /\ Qualified(s_public, s_note) \in TablesRead(rq.sql)
  /\ contains(rlq.Tables, Qualified(s_public, s_actor))

\* The goroutine holds the mutex m, as a reader or as the writer.
Holds(th, m) ==
  \/ th \in mus[m].readers
  \/ mus[m].writer = th /\ ~(AtOp(th, "LockWait") /\ StepOf(th).mu = m)

HoldsRecord(th) == Holds(th, RecordMu)

\* The goroutine is inside a call of Lock or RLock of the registry lock.
AcquiresRegistry(th) ==
  /\ ~LockDone(th)
  /\ StepOf(th).mu = RegistryMu
  /\ StepOf(th).op \in {"Lock", "LockWait", "RLock"}

\* No goroutine that holds a record lock is acquiring the registry lock.
RegistryBeforeRecord == \A th \in Threads : HoldsRecord(th) => ~AcquiresRegistry(th)

\* C30: in every interleaving of Register, Unregister, Get, ForEach,
\* SnapshotView, CleanupOrphans, Broadcast and the disconnect cleanup, a
\* goroutine that holds a record lock never waits for the registry lock,
\* and every operation eventually completes when each Send returns.
C30_LocksDeadlockFree ==
  /\ []RegistryBeforeRecord
  /\ <>(\A th \in Threads : LockDone(th))

\* CleanupOrphans holds the registry lock and waits for the record lock,
\* which the disconnect cleanup has asked for while Broadcast is in Send.
C30_Witness ==
  /\ mus[RegistryMu].writer = "CleanupOrphans"
  /\ AtOp("CleanupOrphans", "RLock")
  /\ mus[RecordMu].writer = "HandleWS"
  /\ AtOp("HandleWS", "LockWait")
  /\ AtOp("Broadcast", "Send")

\* The writers inside conn.WriteJSON on connection c.
Writing(c) ==
  {w \in {kwire[c][i].w : i \in 1..Len(kwire[c])} :
     Cardinality({i \in 1..Len(kwire[c]) : kwire[c][i].w = w /\ kwire[c][i].ev = "begin"})
       > Cardinality({i \in 1..Len(kwire[c]) : kwire[c][i].w = w /\ kwire[c][i].ev = "end"})}

\* A write of a refresh task: an update or error frame of a live query.
IsRefreshWrite(e) == e.w # 0 /\ e.type \in {"update", "error"}

\* Connection c was sent `subscribed` for the live query id before event i.
HadSubscribed(c, id, i) ==
  \E k \in 1..(i - 1) :
    kwire[c][k].ev = "end" /\ kwire[c][k].type = "subscribed" /\ kwire[c][k].lq = id

\* C27: once the write of `unsubscribed` to a connection has returned, no
\* write of an update or error frame of a live query that connection had
\* subscribed begins on it.
C27_NoFrameAfterUnsubscribed ==
  \A c \in Conns : \A i, j \in 1..Len(kwire[c]) :
    ( /\ i < j
      /\ kwire[c][i].ev = "end" /\ kwire[c][i].type = "unsubscribed"
      /\ kwire[c][j].ev = "begin" /\ IsRefreshWrite(kwire[c][j]) )
    => ~HadSubscribed(c, kwire[c][j].lq, i)

\* `unsubscribed` was written to a connection while a refresh task of one of
\* its live queries, started before the Unregister, has not yet broadcast.
C27_Witness ==
  \E c \in Conns, t \in 1..Len(tasks) :
    /\ \E i \in 1..Len(kwire[c]) :
         /\ kwire[c][i].ev = "end" /\ kwire[c][i].type = "unsubscribed"
         /\ HadSubscribed(c, tasks[t].lq, i)
    /\ tasks[t].pc = "broadcast"
    /\ c \in lqs[tasks[t].lq].Clients

\* C28: at most one goroutine is inside conn.WriteJSON on a connection.
C28_OneWriterPerConnection == \A c \in Conns : Cardinality(Writing(c)) <= 1

\* A refresh task is inside Send on a connection whose handler is about to
\* write a reply.
C28_Witness ==
  \E c \in Conns, t \in 1..Len(tasks) :
    /\ tasks[t].pc = "writing"
    /\ c \in lqs[tasks[t].lq].Clients
    /\ kpc[c].pc = "reply"

\* C29: every update or error frame of a live query written to its
\* subscriber is written after the write of that query's `subscribed`
\* frame began.
C29_SubscribedBeforeUpdate ==
  \A c \in Conns : \A j \in 1..Len(kwire[c]) :
    (kwire[c][j].ev = "end" /\ IsRefreshWrite(kwire[c][j]))
    => \E i \in 1..(j - 1) :
         /\ kwire[c][i].ev = "begin" /\ kwire[c][i].type = "subscribed"
         /\ kwire[c][i].lq = kwire[c][j].lq

\* registerLiveQuery has registered a live query, its `subscribed` reply is
\* not yet written, and a refresh task of it is about to broadcast.
C29_Witness ==
  \E c \in Conns, t \in 1..Len(tasks) :
    /\ kpc[c].pc = "reply" /\ kpc[c].type = "subscribed"
    /\ kpc[c].lq = tasks[t].lq
    /\ tasks[t].pc = "broadcast"

\* The goroutines th waits for, directly or through others.
Waited(th) == WaitsFor(Blockers(th), Cardinality(Threads))

Sweeping == opc.pc \in {"sweep", "rlocked", "inspected"}

\* The records the sweep has inspected and dealt with.
Swept == {e \in opc.seen : ~(opc.pc = "inspected" /\ e[1] = opc.cur)}

\* C23: CleanupOrphans deletes a record only when its subscriber set is
\* empty, at the inspection and at the delete; while it sweeps, every record
\* it found empty is gone from the registry and every record it found with a
\* subscriber is still registered; when the range is over the registry
\* holds exactly the records found with a subscriber; the count returned is
\* the number of records removed.
C23_CleanupOrphansRemovesOrphansOnly ==
  /\ \A id \in opc.removed : lqs[id].Clients = {} /\ id \notin data
  /\ (opc.pc = "inspected" /\ opc.noClients) => lqs[opc.cur].Clients = {}
  /\ Sweeping =>
       \A e \in Swept : IF e[2] THEN e[1] \in opc.removed
                        ELSE e[1] \in data /\ e[1] \notin opc.removed
  /\ (opc.pc = "sweep" /\ opc.todo = {}) => data = {e[1] : e \in {x \in opc.seen : ~x[2]}}
  /\ (opc.pc = "returned") => opc.removed = {e[1] : e \in {x \in opc.seen : x[2]}}
  /\ opc.count = Cardinality(opc.removed)

\* A sweep has returned 1: it removed a record whose subscriber had been
\* deleted by a disconnect cleanup that had not yet called Unregister, and
\* kept a record that has a subscriber.
C23_Witness ==
  /\ opc.pc = "returned"
  /\ opc.count = 1
  /\ \E e \in opc.seen : ~e[2] /\ lqs[e[1]].Clients # {}
  /\ \E c \in Conns : odc[c].pc = "unregister" /\ CleanupAt(c) \in opc.removed

====
